---- MODULE Spec2Model ----
(***************************************************************************)
(* A model of the read-only ext4 image parser go-ext4-filesystem.          *)
(*                                                                         *)
(* The repository carries two packages that implement the same facade:     *)
(* the package in directory ext4/ (fs.go, ext4.go, file.go, inode.go,      *)
(* superblock.go, cache.go) and the older package in directory pkg/.       *)
(* Where both define an operation, both are modelled, each under the name  *)
(* of its function with the suffix Pkg for the one in pkg/.                *)
(*                                                                         *)
(* Numbers wider than TLC's integers (uint32 and int64 fields of the       *)
(* on-disk records) are kept as four 16-bit limbs, least significant       *)
(* first, so that 32-bit wrap-around and 64-bit sums are computed exactly. *)
(***************************************************************************)
EXTENDS Integers, Sequences, FiniteSets, TLC

\* ------------------------------------------------------------------------
\* Bounds of the model (inputs are drawn from sets these size).
\* ------------------------------------------------------------------------

\* Largest number of block groups an image's block count is drawn for.
MaxGroups == 2

\* Number of block groups of the large images: with the descriptor the
\* construction adds, more 64-byte records than one 512-byte sector holds.
ManyGroups == 8

\* Largest number of leaf extents drawn for a tree whose leaves are tried in
\* every on-disk order.
MaxLeaves == 3

\* Largest number of whole blocks of the files read (their sizes go one
\* byte past it).
MaxFileBlocks == 2

\* Logical block of the single extent of the sparse file read.
HoleBlocks == 10

\* Number of leaf extents of the large trees: one more than a 512-byte
\* sector holds after the 12-byte header.
ManyLeaves == 42

\* ------------------------------------------------------------------------
\* Program constants.
\* ------------------------------------------------------------------------

SectorSize == 512
SuperBlockSize == 1024
GroupZeroPadding == 1024
rootInodeNumber == 2
\* The mode walk of package pkg takes for a directory (0o40755).
DIRECTORY_MODE == 16877
\* GetBlockSize() of a superblock with LogBlockSize 0, the block size of the
\* trees, files and directories drawn.
BlockSize == 1024
\* The superblock magic parseSuperBlock and NewFS compare with.
Ext4Magic == 61267

\* ------------------------------------------------------------------------
\* Wide arithmetic: a number below 2^64 is <<l1, l2, l3, l4>>, value
\* l1 + l2*2^16 + l3*2^32 + l4*2^48.
\* ------------------------------------------------------------------------

Base == 256 * 256

WZero == <<0, 0, 0, 0>>

\* The wide form of a small natural n < 2^31.
W(n) == <<n % Base, (n \div Base) % Base, 0, 0>>

\* binary.Read of a little-endian uint32 given as its two 16-bit halves.
U32(h) == <<h[1], h[2], 0, 0>>

\* binary.Read of a little-endian uint16 given as its two bytes.
U16(b) == b[1] + 256 * b[2]

\* a + b modulo 2^64.
WAdd(a, b) ==
    LET s1 == a[1] + b[1]
        s2 == a[2] + b[2] + (s1 \div Base)
        s3 == a[3] + b[3] + (s2 \div Base)
        s4 == a[4] + b[4] + (s3 \div Base)
    IN  <<s1 % Base, s2 % Base, s3 % Base, s4 % Base>>

\* a - b modulo 2^64.
WSub(a, b) ==
    LET d1 == a[1] - b[1]
        d2 == a[2] - b[2] - (IF d1 < 0 THEN 1 ELSE 0)
        d3 == a[3] - b[3] - (IF d2 < 0 THEN 1 ELSE 0)
        d4 == a[4] - b[4] - (IF d3 < 0 THEN 1 ELSE 0)
    IN  <<d1 % Base, d2 % Base, d3 % Base, d4 % Base>>

\* Conversion to a narrower unsigned type: uint32(a).
WTrunc32(a) == <<a[1], a[2], 0, 0>>

\* int64(x) << 32 for a 32-bit x.
WShl32(a) == <<0, 0, a[1], a[2]>>

\* Whether a is below 2^31, so that WSmall(a) is a TLC integer.
WFits(a) == a[3] = 0 /\ a[4] = 0 /\ a[2] < 128 * 256

WSmall(a) == a[1] + Base * a[2]

\* a / d, the quotient truncated, for a divisor 1 <= d <= 2^15.
WDivSmall(a, d) ==
    LET q4 == a[4] \div d
        n3 == (a[4] % d) * Base + a[3]
        q3 == n3 \div d
        n2 == (n3 % d) * Base + a[2]
        q2 == n2 \div d
        n1 == (n2 % d) * Base + a[1]
        q1 == n1 \div d
    IN  <<q1, q2, q3, q4>>

\* a * m modulo 2^64 for a factor 0 <= m <= 2^15.
WMulSmall(a, m) ==
    LET p1 == a[1] * m
        p2 == a[2] * m + (p1 \div Base)
        p3 == a[3] * m + (p2 \div Base)
        p4 == a[4] * m + (p3 \div Base)
    IN  <<p1 % Base, p2 % Base, p3 % Base, p4 % Base>>

\* ceil(a / d) computed in 64 bits, where no value of the model wraps.
WCeilDiv(a, d) == WDivSmall(WAdd(a, W(d - 1)), d)

\* ------------------------------------------------------------------------
\* State.
\* ------------------------------------------------------------------------

VARIABLES
    image,      \* the byte source handed to NewFS and Check: its length in
                \* sectors and the fields held by bytes [1024, 2048)
    fsExt4,     \* what NewFS of package ext4 ended with ("none" before)
    fsPkg,      \* what NewFS of package pkg ended with ("none" before)
    checkRes,   \* what Check returned ("none" before)
    tree,       \* an inode's extent tree on a disk: the drawn leaves, the
                \* 60-byte root, the blocks holding the other nodes
    walk,       \* what FileSystem.extents of package ext4 returned for it
    walkPkg,    \* what FileSystem.extents of package pkg returned for it
    fin,        \* a regular file to read: its inode's size and extent tree,
                \* and the length of the buffer its caller reads into
    file,       \* the File opened on it, with what its Read calls returned
    dirIn,      \* a directory tree on a disk: per inode number its mode and
                \* the bytes of the extents of its data, in walker order
    listing,    \* what listEntries of package ext4 returned for its root
    listingPkg, \* what walk of package pkg returned for its root
    inodeIn,    \* an image with its group descriptor table and inode tables
    ifs,        \* the FileSystem value built on it ("none" before)
    lookup,     \* the last getInode call on it: its argument and outcome
    icache,     \* the inode cache of the FileSystem value: the no-op one or
                \* a store of the caller, with what it holds
    fsIn,       \* an image with a directory tree, and the path operated on
    ctx,        \* the position of the reader the filesystem value shares,
                \* and the inode numbers handed to getInode so far
    dirRes,     \* the results of ReadDir on the path
    statRes,    \* the results of Stat on the path
    openRes,    \* the results of Open on the path
    handle,     \* the File the last successful Open returned
    concIn,     \* an image and the two operations run on it together
    cursor,     \* the position of the reader the two share
    procs,      \* how far each of the two has come, and its result
    legacyIn,   \* an image with an inode whose blocks are named by pointers
    addresses,  \* what Inode.GetBlockAddresses returned for it
    modeIn,     \* an inode of which only the mode matters
    kinds       \* what the four kind predicates of Inode answered for it

constructVars == <<image, fsExt4, fsPkg, checkRes>>
extentVars == <<tree, walk, walkPkg>>
fileVars == <<fin, file>>
dirVars == <<dirIn, listing, listingPkg>>
inodeVars == <<inodeIn, ifs, lookup, icache>>
fsVars == <<fsIn, ctx, dirRes, statRes, openRes, handle>>
concVars == <<concIn, cursor, procs>>
legacyVars == <<legacyIn, addresses>>
modeVars == <<modeIn, kinds>>

vars ==
    <<constructVars, extentVars, fileVars, dirVars, inodeVars, fsVars, concVars,
      legacyVars,
      modeVars>>

\* An operation that has not run, an input that is not drawn.
None == [kind |-> "none"]

\* A family none of whose operations is run.
IdleConstruct == image = None /\ fsExt4 = None /\ fsPkg = None /\ checkRes = None
IdleExtents == tree = None /\ walk = None /\ walkPkg = None
IdleRead == fin = None /\ file = None
IdleDir == dirIn = None /\ listing = None /\ listingPkg = None
IdleInode == inodeIn = None /\ ifs = None /\ lookup = None /\ icache = None
IdleFs ==
    /\ fsIn = None /\ ctx = None /\ dirRes = None /\ statRes = None
    /\ openRes = None /\ handle = None
IdleConc == concIn = None /\ cursor = None /\ procs = None
IdleLegacy == legacyIn = None /\ addresses = None
IdleMode == modeIn = None /\ kinds = None

\* The variables of the other families, which an action of one family
\* leaves alone.
exceptConstruct ==
    <<extentVars, fileVars, dirVars, inodeVars, fsVars, concVars,
      legacyVars, modeVars>>
exceptExtents ==
    <<constructVars, fileVars, dirVars, inodeVars, fsVars, concVars,
      legacyVars, modeVars>>
exceptRead ==
    <<constructVars, extentVars, dirVars, inodeVars, fsVars, concVars,
      legacyVars, modeVars>>
exceptDir ==
    <<constructVars, extentVars, fileVars, inodeVars, fsVars, concVars,
      legacyVars, modeVars>>
exceptConc ==
    <<constructVars, extentVars, fileVars, dirVars, inodeVars, fsVars,
      legacyVars, modeVars>>
exceptFs ==
    <<constructVars, extentVars, fileVars, dirVars, inodeVars, concVars,
      legacyVars, modeVars>>
exceptInode ==
    <<constructVars, extentVars, fileVars, dirVars, fsVars, concVars,
      legacyVars, modeVars>>
exceptLegacy ==
    <<constructVars, extentVars, fileVars, dirVars, inodeVars, fsVars, concVars, modeVars>>
exceptMode ==
    <<constructVars, extentVars, fileVars, dirVars, inodeVars, fsVars, concVars, legacyVars>>

\* ------------------------------------------------------------------------
\* Superblock (src/ext4/superblock.go).
\* ------------------------------------------------------------------------

\* Superblock{}: the zero value of the record.
ZeroSuperblock ==
    [Magic |-> 0, InodeCount |-> WZero, BlockCountLo |-> WZero,
     BlockCountHi |-> WZero, BlockPerGroup |-> WZero, InodePerGroup |-> WZero,
     LogBlockSize |-> 0, InodeSize |-> 0, FeatureIncompat |-> {}]

\* binary.Read(r, binary.LittleEndian, &sb) on the 1024 bytes of a
\* superblock: every field decoded from its little-endian bytes.
DecodeSuperblock(d) ==
    [Magic |-> U16(d.Magic), InodeCount |-> U32(d.InodeCount),
     BlockCountLo |-> U32(d.BlockCountLo), BlockCountHi |-> U32(d.BlockCountHi),
     BlockPerGroup |-> U32(d.BlockPerGroup), InodePerGroup |-> U32(d.InodePerGroup),
     LogBlockSize |-> d.LogBlockSize, InodeSize |-> d.InodeSize,
     FeatureIncompat |-> d.FeatureIncompat]

FeatureInCompat64bit(sb) == "64BIT" \in sb.FeatureIncompat

GetBlockCount(sb) ==
    IF FeatureInCompat64bit(sb)
    THEN WAdd(WShl32(sb.BlockCountHi), sb.BlockCountLo)
    ELSE sb.BlockCountLo

\* (sb.BlockCountHi<<32|sb.BlockCountLo)/sb.BlockPerGroup + 1 in uint32: the
\* shift of a uint32 by 32 is 0. Called with BlockPerGroup # 0 only.
GetGroupDescriptorTableCount(sb) ==
    WTrunc32(WAdd(WDivSmall(sb.BlockCountLo, WSmall(sb.BlockPerGroup)), W(1)))

RECURSIVE Pow2(_)
Pow2(n) == IF n = 0 THEN 1 ELSE 2 * Pow2(n - 1)

GetBlockSize(sb) == 1024 * Pow2(sb.LogBlockSize)

\* ------------------------------------------------------------------------
\* Construction (src/unnamed/part_002, src/pkg/fs.go).
\* ------------------------------------------------------------------------

ImageLen(img) == img.sectors * SectorSize

\* readBlock(r, size) with r at byte pos: size/SectorSize sectors are copied,
\* and a sector the source cannot supply whole is an error.
readBlockOk(img, pos, size) ==
    pos + (size \div SectorSize) * SectorSize <= ImageLen(img)

divWithRoundUp(a, b) == IF a % b # 0 THEN (a \div b) + 1 ELSE a \div b

Err(m) == [kind |-> "err", msg |-> m]

\* A run that ends in a Go runtime panic (integer divide by zero, nil
\* pointer dereference, index out of range).
Panic(m) == [kind |-> "panic", msg |-> m]

\* The descriptor list, or an error. A descriptor is decoded by binary.Read
\* into the 64-byte GroupDescriptor record whatever the descriptor size, so
\* the i-th one (from 0) comes from the 64 bytes at offset 64*i of the table
\* read; "at" is the image offset of its first byte.
getGroupDescriptor(sb, img) ==
    LET count == GetGroupDescriptorTableCount(sb)
    IN  IF ~WFits(count) \/ WSmall(count) > 128 * 256
        THEN \* a table of 2^15 descriptors or more is longer than every
             \* image of the model
             Err("failed to read group descriptor")
        ELSE
        LET n == WSmall(count)
            GroupDescriptorSize == IF FeatureInCompat64bit(sb) THEN n * 64 ELSE n * 32
            sectors == divWithRoundUp(GroupDescriptorSize, SectorSize)
        IN  IF ~readBlockOk(img, GetBlockSize(sb), sectors * SectorSize)
            THEN Err("failed to read group descriptor")
            ELSE IF n * 64 > sectors * SectorSize
            THEN Err("failed to parse group descriptor")
            ELSE [kind |-> "ok",
                  gds |-> [i \in 1 .. n |-> [at |-> GetBlockSize(sb) + 64 * (i - 1)]]]

\* parseSuperBlock with the comparison of the magic left out: the fault the
\* magic check of C5 is there to exclude.
parseSuperBlockAnyMagic(avail, d) ==
    IF avail < SuperBlockSize
    THEN [err |-> TRUE, sb |-> ZeroSuperblock]
    ELSE [err |-> FALSE, sb |-> ZeroSuperblock]

\* parseSuperBlock(r) of package ext4, r holding "avail" bytes: the decoded
\* record is checked and dropped, and Superblock{} is returned.
parseSuperBlock(avail, d) ==
    IF avail < SuperBlockSize
    THEN [err |-> TRUE, sb |-> ZeroSuperblock]
    ELSE IF DecodeSuperblock(d).Magic # Ext4Magic
    THEN [err |-> TRUE, sb |-> ZeroSuperblock]
    ELSE [err |-> FALSE, sb |-> ZeroSuperblock]

\* The bytes a reader placed at the superblock can supply.
SuperblockAvail(img) ==
    IF ImageLen(img) > GroupZeroPadding THEN ImageLen(img) - GroupZeroPadding ELSE 0

\* NewFS from the group-count check on (both packages share these lines).
newFSFrom(sb, img) ==
    IF sb.BlockPerGroup = WZero \/ sb.InodePerGroup = WZero
    THEN Panic("integer divide by zero")
    ELSE
    LET bpg == WSmall(sb.BlockPerGroup)
        ipg == WSmall(sb.InodePerGroup)
        \* int64 arithmetic
        numBlockGroups ==
            WDivSmall(WSub(WAdd(GetBlockCount(sb), sb.BlockPerGroup), W(1)), bpg)
        \* uint32 arithmetic
        numBlockGroups2 ==
            WDivSmall(WTrunc32(WSub(WTrunc32(WAdd(sb.InodeCount, sb.InodePerGroup)), W(1))), ipg)
    IN  IF numBlockGroups # numBlockGroups2
        THEN Err("Block/inode mismatch")
        ELSE LET g == getGroupDescriptor(sb, img)
             IN  IF g.kind = "err"
                 THEN Err("failed to get group Descriptor")
                 ELSE [kind |-> "fs", sb |-> sb, gds |-> g.gds]

\* NewFS of package ext4.
NewFSResult(img) ==
    IF ~readBlockOk(img, GroupZeroPadding, SuperBlockSize)
    THEN Err("failed to read super block")
    ELSE LET p == parseSuperBlock(SuperBlockSize, img.sb)
         IN  IF p.err THEN Err("failed to parse super block")
             ELSE newFSFrom(p.sb, img)

\* NewFS of package pkg: the record is decoded and checked in place.
NewFSPkgResult(img) ==
    IF ~readBlockOk(img, GroupZeroPadding, SuperBlockSize)
    THEN Err("failed to read super block")
    ELSE LET sb == DecodeSuperblock(img.sb)
         IN  IF sb.Magic # Ext4Magic THEN Err("unsupported block")
             ELSE newFSFrom(sb, img)

\* Check(r) with r placed at the superblock.
CheckResult(img) ==
    [kind |-> "bool", val |-> ~parseSuperBlock(SuperblockAvail(img), img.sb).err]

\* ------------------------------------------------------------------------
\* Images the construction is run on.
\* ------------------------------------------------------------------------

\* Blocks and inodes per group of the drawn superblocks; 0 is a corrupt one.
PerGroupValues == {0, 8}

Halves(n) == <<n % Base, n \div Base>>

DiskSuperblocks ==
    [Magic : {<<83, 239>>, <<239, 83>>, <<0, 0>>},
     InodeCount : {Halves(n) : n \in {8 * g : g \in 0 .. MaxGroups} \cup {9, 8 * ManyGroups}}
                    \cup {<<Base - 1, Base - 1>>, <<Base - 8, Base - 1>>},
     BlockCountLo : {Halves(n) : n \in {8 * g : g \in 0 .. MaxGroups} \cup {9, 8 * ManyGroups}},
     BlockCountHi : {Halves(0), Halves(1)},
     BlockPerGroup : {Halves(n) : n \in PerGroupValues},
     InodePerGroup : {Halves(n) : n \in PerGroupValues},
     LogBlockSize : {0, 1, 2, 6},
     InodeSize : {256},
     FeatureIncompat : {{}, {"64BIT"}}]

\* The longest image holds the sector behind byte 65536, where the
\* descriptor table of an image with blocks of 65536 bytes is read.
Images == [sectors : {3, 4, 16, 136}, sb : DiskSuperblocks]

InitConstruct ==
    /\ image \in Images
    /\ fsExt4 = None
    /\ fsPkg = None
    /\ checkRes = None
    /\ IdleExtents
    /\ IdleRead
    /\ IdleDir
    /\ IdleInode
    /\ IdleFs
    /\ IdleConc
    /\ IdleLegacy
    /\ IdleMode

NewFS ==
    /\ fsExt4.kind = "none"
    /\ fsExt4' = NewFSResult(image)
    /\ UNCHANGED <<image, fsPkg, checkRes, exceptConstruct>>

NewFSPkg ==
    /\ fsPkg.kind = "none"
    /\ fsPkg' = NewFSPkgResult(image)
    /\ UNCHANGED <<image, fsExt4, checkRes, exceptConstruct>>

Check ==
    /\ checkRes.kind = "none"
    /\ checkRes' = CheckResult(image)
    /\ UNCHANGED <<image, fsExt4, fsPkg, exceptConstruct>>

NextConstruct == NewFS \/ NewFSPkg \/ Check

SpecConstruct == InitConstruct /\ [][NextConstruct]_vars

\* ------------------------------------------------------------------------
\* Extent tree walker (src/unnamed/part_002, src/pkg/ext4.go).
\*
\* A node is [Depth, Entries, items]: the header's depth and entry count and
\* the 12-byte records that follow it. A leaf record (Extent) is
\* [Block, Len, StartHi, StartLo]; an index record (ExtentInternal) is
\* [Block, LeafLow, LeafHigh]. A disk is [len, nodes]: its length in bytes
\* and the nodes it holds, keyed by the byte offset of their first byte; the
\* bytes of a block after its node are zero.
\* ------------------------------------------------------------------------

WLeq(a, b) ==
    \/ a[4] < b[4]
    \/ a[4] = b[4] /\ a[3] < b[3]
    \/ a[4] = b[4] /\ a[3] = b[3] /\ a[2] < b[2]
    \/ a[4] = b[4] /\ a[3] = b[3] /\ a[2] = b[2] /\ a[1] <= b[1]

\* The whole 12-byte records a buffer of n bytes holds after the header.
EntryCap(n) == (n - 12) \div 12

ZeroItem == [Block |-> 0, Len |-> 0, StartHi |-> 0, StartLo |-> 0,
             LeafLow |-> 0, LeafHigh |-> 0]

\* The i-th record decoded from a node's buffer.
ItemAt(node, i) == IF i <= Len(node.items) THEN node.items[i] ELSE ZeroItem

LeafOf(it) == [Block |-> it.Block, Len |-> it.Len,
               StartHi |-> it.StartHi, StartLo |-> it.StartLo]

\* ext4.r.ReadAt(b, off) with len(b) = SectorSize: the node the sector
\* holds, a zero sector where the disk holds none.
ZeroNode == [Depth |-> 0, Entries |-> 0, items |-> <<>>]

ReadAtOk(disk, off) == WLeq(WAdd(off, W(SectorSize)), disk.len)

NodeAt(disk, off) == IF off \in DOMAIN disk.nodes THEN disk.nodes[off] ELSE ZeroNode

\* int64(extent.LeafHigh)<<32 + int64(extent.LeafLow)*ext4.sb.GetBlockSize()
ChildOffset(it, B) == WAdd(WShl32(W(it.LeafHigh)), WMulSmall(W(it.LeafLow), B))

\* sort.Slice(extents, func(i, j) { extents[i].Block < extents[j].Block })
RECURSIVE InsertByBlock(_, _)
InsertByBlock(sorted, e) ==
    IF sorted = <<>> THEN <<e>>
    ELSE IF e.Block < sorted[Len(sorted)].Block
    THEN Append(InsertByBlock(SubSeq(sorted, 1, Len(sorted) - 1), e), sorted[Len(sorted)])
    ELSE Append(sorted, e)

RECURSIVE SortByBlock(_)
SortByBlock(es) ==
    IF es = <<>> THEN <<>>
    ELSE InsertByBlock(SortByBlock(SubSeq(es, 1, Len(es) - 1)), es[Len(es)])

\* What extents of package ext4 does to the list before it returns it.
SortOnReturn(es) == SortByBlock(es)

\* What extents of package pkg does to it: nothing.
SortOnReturnPkg(es) == es

\* Frames of extents the goroutine's stack holds before the runtime ends
\* the process ("fatal error: stack overflow"); the runtime's limit is a
\* count of bytes, here a count of frames.
StackFrames == 8

Fatal(m) == [kind |-> "fatal", msg |-> m]

\* extents(b, extents): b is the node with room for cap records, acc the
\* list so far, sorting whether this is package ext4's function, level the
\* count of frames of extents on the stack, this one included.
RECURSIVE extentsAt(_, _, _, _, _, _, _)
RECURSIVE extentsChildren(_, _, _, _, _, _, _, _)
extentsAt(disk, B, node, cap, acc, sorting, level) ==
    IF level > StackFrames THEN Fatal("stack overflow")
    ELSE IF node.Depth = 0
    THEN IF node.Entries > cap
         THEN Err("failed to read leaf node extent")
         ELSE LET all == acc \o [i \in 1 .. node.Entries |-> LeafOf(ItemAt(node, i))]
              IN  [kind |-> "ok",
                   extents |-> IF sorting THEN SortOnReturn(all) ELSE SortOnReturnPkg(all)]
    ELSE LET r == extentsChildren(disk, B, node, cap, 1, acc, sorting, level)
         IN  IF r.kind # "ok" THEN r
             ELSE [kind |-> "ok",
                   extents |-> IF sorting THEN SortOnReturn(r.extents)
                               ELSE SortOnReturnPkg(r.extents)]

\* The loop over an index node's records, from the i-th on.
extentsChildren(disk, B, node, cap, i, acc, sorting, level) ==
    IF i > node.Entries THEN [kind |-> "ok", extents |-> acc]
    ELSE IF i > cap THEN Err("failed to read internal extent")
    ELSE LET off == ChildOffset(ItemAt(node, i), B)
         IN  IF ~ReadAtOk(disk, off) THEN Err("failed to read leaf node extent")
             ELSE LET r == extentsAt(disk, B, NodeAt(disk, off),
                                     EntryCap(SectorSize), acc, sorting, level + 1)
                  IN  IF r.kind = "fatal" THEN r
                      ELSE IF r.kind = "err" THEN Err("failed to get extents")
                      ELSE extentsChildren(disk, B, node, cap, i + 1, r.extents,
                                           sorting, level)

\* The call of extents made from outside it.
extentsFrom(disk, B, node, cap, acc, sorting) ==
    extentsAt(disk, B, node, cap, acc, sorting, 1)

\* ext4.extents(inode.BlockOrExtents[:], nil), the root being the 60 bytes
\* of the inode.
extents(t) == extentsFrom(t.disk, t.B, t.root, EntryCap(60), <<>>, TRUE)

extentsPkg(t) == extentsFrom(t.disk, t.B, t.root, EntryCap(60), <<>>, FALSE)

\* ------------------------------------------------------------------------
\* Extent trees the walker is run on.
\* ------------------------------------------------------------------------

\* The leaf extent of one block at logical block c.
Leaf(c) == [Block |-> c, Len |-> 1, StartHi |-> 0, StartLo |-> 1000 + c,
            LeafLow |-> 0, LeafHigh |-> 0]

Index(c, blk) == [Block |-> c, Len |-> 0, StartHi |-> 0, StartLo |-> 0,
                  LeafLow |-> blk, LeafHigh |-> 0]

NodeOf(depth, items) == [Depth |-> depth, Entries |-> Len(items), items |-> items]

\* The on-disk orders of n leaves at logical blocks 0 .. n-1: every order
\* for small n, ascending and descending for the others.
Perms(n) == {p \in [1 .. n -> 0 .. n - 1] : \A i, j \in 1 .. n : i # j => p[i] # p[j]}

LeafOrders(n) ==
    IF n <= MaxLeaves
    THEN {[i \in 1 .. n |-> Leaf(p[i])] : p \in Perms(n)}
    ELSE {[i \in 1 .. n |-> Leaf(i - 1)], [i \in 1 .. n |-> Leaf(n - i)]}

\* The k-th of m consecutive parts of a list, the parts as even as they go.
Part(xs, m, k) ==
    SubSeq(xs, ((k - 1) * Len(xs)) \div m + 1, (k * Len(xs)) \div m)

\* The disk block a tree's j-th leaf node and j-th middle node are put in.
LeafBlock(j) == 100 + j
MidBlock(j) == 200 + j

DiskBlocks == 512

\* A tree of the given depth for the leaves: k leaf nodes (depth >= 1) under
\* m middle index nodes (depth 2).
TreeOf(leaves, depth, k, m, B) ==
    LET leafNodes == [j \in 1 .. k |-> NodeOf(0, Part(leaves, k, j))]
        leafIdx == [j \in 1 .. k |-> Index(j, LeafBlock(j))]
        midNodes == [j \in 1 .. m |-> NodeOf(1, Part(leafIdx, m, j))]
        midIdx == [j \in 1 .. m |-> Index(j, MidBlock(j))]
        at(blk) == WMulSmall(W(blk), B)
        leafAt == {at(LeafBlock(j)) : j \in 1 .. k}
        midAt == {at(MidBlock(j)) : j \in 1 .. m}
    IN  [leaves |-> leaves,
         depth |-> depth,
         B |-> B,
         root |-> CASE depth = 0 -> NodeOf(0, leaves)
                    [] depth = 1 -> NodeOf(1, leafIdx)
                    [] OTHER -> NodeOf(2, midIdx),
         disk |-> [len |-> WMulSmall(W(DiskBlocks), B),
                   nodes |->
                     CASE depth = 0 -> [o \in {} |-> ZeroNode]
                       [] depth = 1 ->
                            [o \in leafAt |->
                               leafNodes[CHOOSE j \in 1 .. k : at(LeafBlock(j)) = o]]
                       [] OTHER ->
                            [o \in leafAt \cup midAt |->
                               IF o \in leafAt
                               THEN leafNodes[CHOOSE j \in 1 .. k : at(LeafBlock(j)) = o]
                               ELSE midNodes[CHOOSE j \in 1 .. m : at(MidBlock(j)) = o]]]]

\* A tree of depth 1 whose one leaf node lies beyond block 2^32 of a disk
\* that long: the index record's Leaf_high is 1.
HighTreeOf(leaves, B) ==
    LET blk == WAdd(WShl32(W(1)), W(LeafBlock(1)))
    IN  [leaves |-> leaves,
         depth |-> 1,
         B |-> B,
         root |-> NodeOf(1, <<[Index(1, LeafBlock(1)) EXCEPT !.LeafHigh = 1]>>),
         disk |-> [len |-> WMulSmall(WAdd(WShl32(W(1)), W(DiskBlocks)), B),
                   nodes |-> [o \in {WMulSmall(blk, B)} |-> NodeOf(0, leaves)]]]

\* The trees drawn: every depth the leaves fit in, the inode's root holding
\* at most 4 records and every other node at most (B - 12) / 12.
Trees ==
    {TreeOf(ls, 0, 0, 0, BlockSize) : ls \in UNION {LeafOrders(n) : n \in 0 .. MaxLeaves}}
    \cup {TreeOf(ls, 1, k, 0, BlockSize) :
            ls \in UNION {LeafOrders(n) : n \in 1 .. MaxLeaves}, k \in 1 .. 2}
    \cup {TreeOf(ls, 2, k, m, BlockSize) :
            ls \in UNION {LeafOrders(n) : n \in 1 .. MaxLeaves}, k \in 2 .. 3, m \in 1 .. 2}
    \cup {TreeOf(ls, 1, k, 0, BlockSize) : ls \in LeafOrders(ManyLeaves), k \in 1 .. 2}
    \cup {TreeOf(ls, 2, k, 1, BlockSize) : ls \in LeafOrders(ManyLeaves), k \in 1 .. 2}
    \cup {HighTreeOf(ls, BlockSize) : ls \in UNION {LeafOrders(n) : n \in 1 .. MaxLeaves}}

\* The block of the j-th node of a chain of index nodes.
ChainBlock(j) == 300 + j

\* A tree whose root is an index node of the given header depth above a
\* chain of index nodes, one for each depth below it, that ends in the leaf
\* node of the leaves.
ChainTreeOf(leaves, depth, B) ==
    LET at(blk) == WMulSmall(W(blk), B)
        nodeAt(j) == IF j = depth THEN NodeOf(0, leaves)
                     ELSE NodeOf(depth - j, <<Index(0, ChainBlock(j + 1))>>)
    IN  [leaves |-> leaves,
         depth |-> depth,
         B |-> B,
         root |-> NodeOf(depth, <<Index(0, ChainBlock(1))>>),
         disk |-> [len |-> WMulSmall(W(DiskBlocks), B),
                   nodes |-> [o \in {at(ChainBlock(j)) : j \in 1 .. depth} |->
                                nodeAt(CHOOSE j \in 1 .. depth : at(ChainBlock(j)) = o)]]]

\* A tree with an index node that points back: the root points to the node
\* in ChainBlock(1), which points to the node in ChainBlock(2), ..., the
\* last of n nodes pointing to the first of them.
CycleTreeOf(n, B) ==
    LET at(blk) == WMulSmall(W(blk), B)
    IN  [leaves |-> <<>>,
         depth |-> 1,
         B |-> B,
         root |-> NodeOf(1, <<Index(0, ChainBlock(1))>>),
         disk |-> [len |-> WMulSmall(W(DiskBlocks), B),
                   nodes |-> [o \in {at(ChainBlock(j)) : j \in 1 .. n} |->
                                NodeOf(1, <<Index(0, ChainBlock(
                                    ((CHOOSE j \in 1 .. n : at(ChainBlock(j)) = o) % n) + 1))>>)]]]

\* Header depth of the deepest tree drawn.
DeepDepth == 6

\* Two leaves of one inode, in either order on disk, the first covering the
\* logical blocks 0 and 1 and the second the logical block 1.
OverlappingLeaves ==
    {<<[Leaf(0) EXCEPT !.Len = 2], Leaf(1)>>, <<Leaf(1), [Leaf(0) EXCEPT !.Len = 2]>>}

CorruptTrees ==
    {ChainTreeOf(ls, d, BlockSize) :
        ls \in UNION {LeafOrders(n) : n \in 1 .. MaxLeaves}, d \in 3 .. DeepDepth}
    \cup {CycleTreeOf(n, BlockSize) : n \in 1 .. 2}
    \cup {TreeOf(ls, d, d, 1, BlockSize) : ls \in OverlappingLeaves, d \in 0 .. 2}

InitExtents ==
    /\ tree \in Trees \cup CorruptTrees
    /\ walk = None
    /\ walkPkg = None
    /\ IdleConstruct
    /\ IdleRead
    /\ IdleDir
    /\ IdleInode
    /\ IdleFs
    /\ IdleConc
    /\ IdleLegacy
    /\ IdleMode

Extents ==
    /\ walk.kind = "none"
    /\ walk' = extents(tree)
    /\ UNCHANGED <<tree, walkPkg, exceptExtents>>

ExtentsPkg ==
    /\ walkPkg.kind = "none"
    /\ walkPkg' = extentsPkg(tree)
    /\ UNCHANGED <<tree, walk, exceptExtents>>

NextExtents == Extents \/ ExtentsPkg

SpecExtents == InitExtents /\ [][NextExtents]_vars

\* ------------------------------------------------------------------------
\* Byte strings. A string of bytes is kept as a list of runs: [z, at, len]
\* is len bytes, zeros written by the reader (z) or the image's bytes from
\* byte offset at on. Adjacent runs that continue each other are one run, so
\* equal strings are equal lists.
\* ------------------------------------------------------------------------

Min(a, b) == IF a < b THEN a ELSE b

Zeros(n) == IF n > 0 THEN <<[z |-> TRUE, at |-> 0, len |-> n]>> ELSE <<>>

Data(at, n) == IF n > 0 THEN <<[z |-> FALSE, at |-> at, len |-> n]>> ELSE <<>>

RECURSIVE RLen(_)
RLen(rs) == IF rs = <<>> THEN 0 ELSE rs[1].len + RLen(Tail(rs))

Continues(a, b) ==
    \/ a.z /\ b.z
    \/ ~a.z /\ ~b.z /\ b.at = a.at + a.len

RECURSIVE Cat(_, _)
Cat(xs, ys) ==
    IF ys = <<>> THEN xs
    ELSE IF xs = <<>> THEN ys
    ELSE IF Continues(xs[Len(xs)], ys[1])
    THEN Cat(SubSeq(xs, 1, Len(xs) - 1)
               \o <<[z |-> ys[1].z, at |-> xs[Len(xs)].at,
                     len |-> xs[Len(xs)].len + ys[1].len]>>,
             Tail(ys))
    ELSE xs \o ys

\* The first n bytes of a string, and the string without them.
RECURSIVE Take(_, _)
Take(rs, n) ==
    IF n <= 0 \/ rs = <<>> THEN <<>>
    ELSE IF rs[1].len <= n THEN <<rs[1]>> \o Take(Tail(rs), n - rs[1].len)
    ELSE <<[rs[1] EXCEPT !.len = n]>>

RECURSIVE Drop(_, _)
Drop(rs, n) ==
    IF n <= 0 \/ rs = <<>> THEN rs
    ELSE IF rs[1].len <= n THEN Drop(Tail(rs), n - rs[1].len)
    ELSE <<[rs[1] EXCEPT !.len = @ - n, !.at = IF rs[1].z THEN 0 ELSE @ + n]>>
           \o Tail(rs)

\* ------------------------------------------------------------------------
\* File reader (src/unnamed/part_002 FileSystem.file, src/ext4/file.go).
\*
\* The File of FileSystem.file reads through an io.MultiReader over one
\* section of the image per extent; the File of the other File.Read looks
\* every block up in a table from logical block to byte offset.
\* ------------------------------------------------------------------------

\* e.offset(): int64(e.StartHi)<<32 + int64(e.StartLo)
offset(e) == WAdd(WShl32(W(e.StartHi)), W(e.StartLo))

\* The bytes io.NewSectionReader(ext4.r, off, size) supplies: those of the
\* section that lie inside the image.
Section(disk, off, size) ==
    IF WLeq(disk.len, off) THEN <<>>
    ELSE Data(WSmall(off), Min(size, WSmall(WSub(disk.len, off))))

RECURSIVE Sections(_, _, _)
Sections(disk, B, es) ==
    IF es = <<>> THEN <<>>
    ELSE Cat(Section(disk, WMulSmall(offset(es[1]), B), B * es[1].Len),
             Sections(disk, B, Tail(es)))

NoRet == [n |-> 0, err |-> "none"]

\* What a File carries for the properties: the last return, the sum of the
\* counts returned, that sum before the last call, whether an earlier call
\* signalled the end of the stream, the number of calls made (counted to 2)
\* and the bytes handed to the caller.
History ==
    [ret |-> NoRet, sum |-> 0, prev |-> 0, ended |-> FALSE, calls |-> 0, out |-> <<>>]

\* ext4.file(fi, filePath)
fileOf(in) ==
    LET x == extents(in.tree)
    IN  IF x.kind = "err" THEN x
        ELSE [kind |-> "file",
              r |-> Sections(in.tree.disk, in.tree.B, x.extents),
              buf |-> <<>>,
              availsize |-> in.size,
              h |-> History]

\* The record of a call that returned count n and error err, the caller's
\* buffer holding data.
Returned(h, n, err, data) ==
    [ret |-> [n |-> n, err |-> err],
     sum |-> h.sum + n,
     prev |-> h.sum,
     ended |-> h.ended \/ h.ret.err = "EOF",
     calls |-> Min(h.calls + 1, 2),
     out |-> Cat(h.out, Take(data, n))]

\* The end of a Read that does not tell an empty buffer from a read of no
\* bytes: it returns 0 and no error where f.buf.Read returns io.EOF.
ReadBufNoEOF(f, plen) ==
    IF RLen(f.buf) = 0
    THEN [f EXCEPT !.h = Returned(f.h, 0, "nil", <<>>)]
    ELSE LET n == Min(plen, RLen(f.buf))
             avail == f.availsize - n
         IN  [f EXCEPT !.buf = Drop(f.buf, n),
                       !.availsize = avail,
                       !.h = Returned(f.h, IF avail < 0 THEN n + avail ELSE n,
                                      "nil", Take(f.buf, n))]

\* The end of File.Read: n, err = f.buf.Read(p) and what follows it.
ReadBuf(f, plen) ==
    IF RLen(f.buf) = 0
    THEN [f EXCEPT !.h = Returned(f.h, 0, "EOF", <<>>)]
    ELSE LET n == Min(plen, RLen(f.buf))
             avail == f.availsize - n
         IN  [f EXCEPT !.buf = Drop(f.buf, n),
                       !.availsize = avail,
                       !.h = Returned(f.h, IF avail < 0 THEN n + avail ELSE n,
                                      "nil", Take(f.buf, n))]

\* File.Read(p) with len(p) = plen >= 1, on the File of FileSystem.file.
ReadResult(f, plen) ==
    IF plen > RLen(f.buf)
    THEN \* io.CopyN(f.buf, f.r, SectorSize)
         LET moved == Min(SectorSize, RLen(f.r))
             g == [f EXCEPT !.r = Drop(f.r, moved),
                            !.buf = Cat(f.buf, Take(f.r, moved))]
         IN  IF moved < SectorSize
             THEN ReadBuf(g, plen)
             ELSE [g EXCEPT !.h = Returned(f.h, 0, "nil", <<>>)]
    ELSE ReadBuf(f, plen)

\* The data table of a File: for every logical block an extent covers, the
\* byte offset of the block in the image.
RECURSIVE TableOf(_, _)
TableOf(B, es) ==
    IF es = <<>> THEN [c \in {} |-> 0]
    ELSE LET e == es[1]
             rest == TableOf(B, Tail(es))
             mine == e.Block .. (e.Block + e.Len - 1)
         IN  [c \in mine \cup DOMAIN rest |->
                IF c \in mine
                THEN WSmall(WMulSmall(WAdd(offset(e), W(c - e.Block)), B))
                ELSE rest[c]]

\* The File the table-driven File.Read is given.
tableFileOf(in) ==
    LET x == extents(in.tree)
    IN  IF x.kind = "err" THEN x
        ELSE [kind |-> "tfile",
              disk |-> in.tree.disk,
              buffer |-> <<>>,
              isNil |-> FALSE,
              currentBlock |-> -1,
              size |-> in.size,
              blockSize |-> in.tree.B,
              table |-> TableOf(in.tree.B, x.extents),
              h |-> History]

\* f.buffer.Read(p) on a buffer that holds bytes.
BufferRead(f, plen) ==
    LET n == Min(plen, RLen(f.buffer))
    IN  [f EXCEPT !.buffer = Drop(f.buffer, n),
                  !.h = Returned(f.h, n, "nil", Take(f.buffer, n))]

\* File.Read(p) with len(p) = plen >= 1, on the File with a data table.
TableReadResult(f, plen) ==
    IF f.isNil
    THEN \* f.buffer.Len() on the nil buffer an earlier end of stream left
         [f EXCEPT !.kind = "panic",
                   !.h = Returned(f.h, 0, "panic", <<>>)]
    ELSE IF RLen(f.buffer) # 0 THEN BufferRead(f, plen)
    ELSE
    LET cur == f.currentBlock + 1
        left == f.size - f.blockSize * cur
        g == [f EXCEPT !.currentBlock = cur]
    IN  IF cur * f.blockSize >= f.size
        THEN [g EXCEPT !.isNil = TRUE, !.h = Returned(f.h, 0, "EOF", <<>>)]
        ELSE IF cur \notin DOMAIN f.table
        THEN BufferRead([g EXCEPT !.buffer =
                            Cat(IF left < f.blockSize THEN Zeros(left) ELSE <<>>,
                                Zeros(f.blockSize))],
                        plen)
        ELSE IF ~WLeq(W(f.table[cur] + (f.blockSize \div SectorSize) * SectorSize),
                      f.disk.len)
        THEN [g EXCEPT !.h = Returned(f.h, 0, "failed to read block", <<>>)]
        ELSE BufferRead([g EXCEPT !.buffer =
                            Data(f.table[cur],
                                 IF left < f.blockSize THEN left ELSE f.blockSize)],
                        plen)

\* ------------------------------------------------------------------------
\* Files the readers are run on.
\* ------------------------------------------------------------------------

FileLeaf(c, n, start) ==
    [Block |-> c, Len |-> n, StartHi |-> 0, StartLo |-> start,
     LeafLow |-> 0, LeafHigh |-> 0]


NBlocks(size) == (size + BlockSize - 1) \div BlockSize

\* The extents drawn for a file of a size: all of its blocks in one extent;
\* in two extents stored last first; its first block only; its last block
\* only; none.
Layouts(size) ==
    {IF size = 0 THEN <<>> ELSE <<FileLeaf(0, NBlocks(size), 40)>>, <<>>}
    \cup (IF NBlocks(size) < 2 THEN {}
          ELSE {<<FileLeaf(1, NBlocks(size) - 1, 80), FileLeaf(0, 1, 40)>>,
                <<FileLeaf(0, 1, 40)>>,
                <<FileLeaf(NBlocks(size) - 1, 1, 40)>>})

FileSizes ==
    {0, 1, 6} \cup {k * BlockSize + d : k \in 1 .. MaxFileBlocks, d \in {-1, 0, 1}}

BufLens == {1, 100, 512, 1024, 4096}

\* The file of one extent of one block at logical block HoleBlocks.
HoleFile ==
    [size |-> (HoleBlocks + 1) * BlockSize,
     leaves |-> <<FileLeaf(HoleBlocks, 1, 40)>>]

FileShapes ==
    {[size |-> s, leaves |-> ls] : s \in FileSizes, ls \in UNION {Layouts(z) : z \in FileSizes}}

FileInputs ==
    {[kind |-> "in", size |-> sh.size,
      tree |-> TreeOf(sh.leaves, 0, 0, 0, BlockSize), plen |-> n] :
        sh \in {x \in FileShapes : x.leaves \in Layouts(x.size)} \cup {HoleFile},
        n \in BufLens}

\* The stream the file's size and extents stand for: per logical block the
\* image's block an extent maps it to, zeros where none does, cut at size.
RECURSIVE BlocksFrom(_, _, _)
BlocksFrom(tab, c, n) ==
    IF c >= n THEN <<>>
    ELSE Cat(IF c \in DOMAIN tab THEN Data(tab[c], BlockSize) ELSE Zeros(BlockSize),
             BlocksFrom(tab, c + 1, n))

Content(in) ==
    Take(BlocksFrom(TableOf(BlockSize, SortByBlock(in.tree.leaves)), 0, NBlocks(in.size)),
         in.size)

InitRead ==
    /\ fin \in FileInputs
    /\ file = None
    /\ IdleConstruct
    /\ IdleExtents
    /\ IdleDir
    /\ IdleInode
    /\ IdleFs
    /\ IdleConc
    /\ IdleLegacy
    /\ IdleMode

\* Open of a regular file through FileSystem.file.
Open ==
    /\ file.kind = "none"
    /\ file' = fileOf(fin)
    /\ UNCHANGED <<fin, exceptRead>>

\* Open of a regular file as a File with a data table.
OpenTable ==
    /\ file.kind = "none"
    /\ file' = tableFileOf(fin)
    /\ UNCHANGED <<fin, exceptRead>>

Read ==
    /\ file.kind = "file"
    /\ file' = ReadResult(file, fin.plen)
    /\ UNCHANGED <<fin, exceptRead>>

ReadTable ==
    /\ file.kind = "tfile"
    /\ file' = TableReadResult(file, fin.plen)
    /\ UNCHANGED <<fin, exceptRead>>

NextRead == Open \/ OpenTable \/ Read \/ ReadTable

SpecRead == InitRead /\ [][NextRead]_vars

\* The caller of an opened File goes on calling Read.
SpecReadLive ==
    InitRead /\ [][NextRead]_vars /\ WF_vars(Read) /\ WF_vars(ReadTable)

\* ------------------------------------------------------------------------
\* Directory enumeration (src/unnamed/part_002 listEntries, src/pkg/fs.go
\* walk).
\*
\* The bytes of a directory's extents are kept byte by byte; a decoded
\* record (DirectoryEntry2) is [Inode, RecLen, NameLen, Flags, Name], Inode
\* in wide form and Name the bytes of the name.
\* ------------------------------------------------------------------------

Dot == <<46>>
DotDot == <<46, 46>>

\* The flags byte of the record that holds a block's checksum.
ChecksumFlags == 222

\* io.ReadFull(r, buf) with len(buf) = n, r having consumed pos bytes of b.
ReadFullErr(b, pos, n) ==
    IF n = 0 THEN "nil"
    ELSE IF Len(b) - pos = 0 THEN "EOF"
    ELSE IF Len(b) - pos < n THEN "ErrUnexpectedEOF"
    ELSE "nil"

\* struc.Unpack(directoryReader, &dirEntry): the fields are read one after
\* the other, each with io.ReadFull; pos is the count of bytes consumed.
Unpack(b, pos) ==
    LET e1 == ReadFullErr(b, pos, 4)
        e2 == ReadFullErr(b, pos + 4, 2)
        e3 == ReadFullErr(b, pos + 6, 1)
        e4 == ReadFullErr(b, pos + 7, 1)
    IN  IF e1 # "nil" THEN [err |-> e1]
        ELSE IF e2 # "nil" THEN [err |-> e2]
        ELSE IF e3 # "nil" THEN [err |-> e3]
        ELSE IF e4 # "nil" THEN [err |-> e4]
        ELSE LET NameLen == b[pos + 7]
                 e5 == ReadFullErr(b, pos + 8, NameLen)
             IN  IF e5 # "nil" THEN [err |-> e5]
                 ELSE [err |-> "nil",
                       pos |-> pos + 8 + NameLen,
                       entry |->
                         [Inode |-> U32(<<U16(<<b[pos + 1], b[pos + 2]>>),
                                          U16(<<b[pos + 3], b[pos + 4]>>)>>),
                          RecLen |-> U16(<<b[pos + 5], b[pos + 6]>>),
                          NameLen |-> NameLen,
                          Flags |-> b[pos + 8],
                          Name |-> SubSeq(b, pos + 9, pos + 8 + NameLen)]]

\* align := dirEntry.RecLen - uint16(dirEntry.NameLen+8): the sum is made in
\* uint8 and the difference in uint16.
Align(e) == (e.RecLen - ((e.NameLen + 8) % 256)) % Base

\* ext4.getInode(ino) as far as the enumeration uses it: the inode of the
\* number, a regular file where the tree names none.
RegularInode == [Mode |-> 33188, extents |-> <<>>]

InodeOf(d, ino) ==
    IF WFits(ino) /\ WSmall(ino) \in DOMAIN d.inodes
    THEN d.inodes[WSmall(ino)]
    ELSE RegularInode

\* directoryReader.Read(make([]byte, align)) after the record u was
\* unpacked from b: the count of bytes consumed once the call returned.
readAlign(b, u) == u.pos + Min(Align(u.entry), Len(b) - u.pos)

RECURSIVE dirLoop(_, _, _, _, _)
RECURSIVE dirExtents(_, _, _, _, _)
RECURSIVE walkFrom(_, _, _)

\* The loop over the records of one extent's bytes b, pos bytes consumed,
\* entries gathered so far: that of listEntries, and that of walk (descend),
\* which walks every entry it appends.
dirLoop(d, b, pos, entries, descend) ==
    LET u == Unpack(b, pos)
    IN  IF u.err = "EOF" THEN [kind |-> "ok", entries |-> entries]
        ELSE IF u.err # "nil" THEN Err("failed to parse directory entry")
        ELSE
        LET e == u.entry
            left == Len(b) - u.pos
            next == readAlign(b, u)
        IN  IF left = 0 /\ Align(e) > 0 THEN Err("failed to read align")
            ELSE IF e.Name = Dot \/ e.Name = DotDot
            THEN dirLoop(d, b, next, entries, descend)
            ELSE IF e.Flags = ChecksumFlags
            THEN [kind |-> "ok", entries |-> entries]
            ELSE IF ~descend
            THEN dirLoop(d, b, next, Append(entries, e), descend)
            ELSE LET w == walkFrom(d, e.Inode, Append(entries, e))
                 IN  IF w.kind = "err" THEN Err("failed to walk")
                     ELSE dirLoop(d, b, next, w.entries, descend)

\* The loop over the extents of a directory, from the i-th on.
dirExtents(d, es, i, entries, descend) ==
    IF i > Len(es) THEN [kind |-> "ok", entries |-> entries]
    ELSE LET r == dirLoop(d, es[i], 0, entries, descend)
         IN  IF r.kind = "err" THEN r
             ELSE dirExtents(d, es, i + 1, r.entries, descend)

\* ext4.walk(ino, entries) of package pkg.
walkFrom(d, ino, entries) ==
    IF InodeOf(d, ino).Mode # DIRECTORY_MODE
    THEN [kind |-> "ok", entries |-> entries]
    ELSE dirExtents(d, InodeOf(d, ino).extents, 1, entries, TRUE)

\* ext4.listEntries(ino) of package ext4.
listEntries(d, ino) == dirExtents(d, InodeOf(d, ino).extents, 1, <<>>, FALSE)

\* ------------------------------------------------------------------------
\* Directories the enumeration is run on.
\*
\* A record on disk is described by its fields and by span, the bytes it
\* takes up in its block: rec_len in a sound record.
\* ------------------------------------------------------------------------

LE16(n) == <<n % 256, n \div 256>>

ZeroBytes(n) == [i \in 1 .. n |-> 0]

\* rec_len of a record with a name of n bytes: 8 + n rounded up to 4.
RecLenOf(n) == 4 * ((8 + n + 3) \div 4)

Record(ino, type, name) ==
    [Inode |-> ino, RecLen |-> RecLenOf(Len(name)), NameLen |-> Len(name),
     Flags |-> type, Name |-> name, span |-> RecLenOf(Len(name))]

\* The 12-byte record at the end of a block that holds its checksum.
ChecksumRecord ==
    [Inode |-> 0, RecLen |-> 12, NameLen |-> 0, Flags |-> ChecksumFlags,
     Name |-> <<>>, span |-> 12]

RecordBytes(r) ==
    LE16(r.Inode % Base) \o LE16(r.Inode \div Base) \o LE16(r.RecLen)
        \o <<r.NameLen, r.Flags>> \o r.Name \o ZeroBytes(r.span - 8 - Len(r.Name))

RECURSIVE SpanSum(_)
SpanSum(rs) == IF rs = <<>> THEN 0 ELSE rs[1].span + SpanSum(Tail(rs))

\* The records of one block: the last of rs is stretched to the end of the
\* block, or to the checksum record that ends it.
BlockOf(rs, csum) ==
    LET room == BlockSize - (IF csum THEN 12 ELSE 0)
        last == rs[Len(rs)]
        fill == room - SpanSum(SubSeq(rs, 1, Len(rs) - 1))
    IN  SubSeq(rs, 1, Len(rs) - 1)
            \o <<[last EXCEPT !.RecLen = fill, !.span = fill]>>
            \o (IF csum THEN <<ChecksumRecord>> ELSE <<>>)

RECURSIVE Flatten(_)
Flatten(ss) == IF ss = <<>> THEN <<>> ELSE ss[1] \o Flatten(Tail(ss))

BlockBytes(blk) == Flatten([i \in 1 .. Len(blk) |-> RecordBytes(blk[i])])

\* The name of the j-th file: 1 to 3 letters.
NameOf(j) == [i \in 1 .. (j % 3) + 1 |-> 97 + (j % 26)]

\* Inode numbers of the files start after the reserved ones.
FirstFile == 20

FileRecord(j) == Record(FirstFile + j, 1, NameOf(j))

DotRecords(self, parent) == <<Record(self, 2, Dot), Record(parent, 2, DotDot)>>

\* The inode number of the subdirectory of the root.
SubDir == 12

\* The blocks of a directory of nb blocks with per files in each, the files
\* numbered from "from" on; the first block begins with "." and "..", and
\* the first record after them is "first" where that is not <<>>.
DirBlocks(self, parent, nb, per, from, first, csum) ==
    [k \in 1 .. nb |->
        BlockOf((IF k = 1 THEN DotRecords(self, parent) \o first ELSE <<>>)
                    \o [j \in 1 .. per |-> FileRecord(from + (k - 1) * per + j)],
                csum)]

\* The blocks of a directory cut into extents of the given lengths.
RECURSIVE CutExtents(_, _)
CutExtents(blocks, lens) ==
    IF lens = <<>> THEN <<>>
    ELSE <<SubSeq(blocks, 1, lens[1])>>
            \o CutExtents(SubSeq(blocks, lens[1] + 1, Len(blocks)), Tail(lens))

RECURSIVE SumSeq(_)
SumSeq(ns) == IF ns = <<>> THEN 0 ELSE ns[1] + SumSeq(Tail(ns))

\* The stored rec_len of the record at "at" of the first block set to v.
WithRecLen(blocks, at, v) ==
    [blocks EXCEPT ![1] = [@ EXCEPT ![at] = [@ EXCEPT !.RecLen = v]]]

DirInode(extentsOfBlocks) ==
    [Mode |-> DIRECTORY_MODE,
     blocks |-> extentsOfBlocks,
     extents |-> [i \in 1 .. Len(extentsOfBlocks) |->
                    Flatten([k \in 1 .. Len(extentsOfBlocks[i]) |->
                                BlockBytes(extentsOfBlocks[i][k])])]]

\* Most files drawn for one block.
MaxPerBlock == 2

\* Lengths in blocks of the extents of the directories drawn.
ExtentLengths == {<<1>>, <<2>>, <<1, 1>>, <<2, 1>>}

\* Stored rec_len values tried for the first file record of a directory:
\* 0 leaves it sound, the others are below 8 + name_len.
BadRecLens == {0, 4, 8}

DirTree(lens, per, csum, sub, bad) ==
    LET first == IF sub THEN <<Record(SubDir, 2, NameOf(0))>> ELSE <<>>
        sound == DirBlocks(rootInodeNumber, rootInodeNumber, SumSeq(lens), per, 0,
                           first, csum)
        blocks == IF bad = 0 THEN sound ELSE WithRecLen(sound, 3, bad)
        root == DirInode(CutExtents(blocks, lens))
        subInode == DirInode(<<DirBlocks(SubDir, rootInodeNumber, 1, per, 10, <<>>, csum)>>)
    IN  [kind |-> "dir",
         sound |-> bad = 0,
         inodes |-> IF sub
                    THEN [n \in {rootInodeNumber, SubDir} |->
                            IF n = SubDir THEN subInode ELSE root]
                    ELSE [n \in {rootInodeNumber} |-> root]]

\* Length of the longest name drawn for a record.
LongNameLen == 248

LongName == [i \in 1 .. LongNameLen |-> 120]

\* A sound directory of one block whose first record after ".." has the
\* long name, followed by per files.
LongDirTree(per, csum) ==
    LET blocks == DirBlocks(rootInodeNumber, rootInodeNumber, 1, per, 0,
                            <<Record(FirstFile, 1, LongName)>>, csum)
    IN  [kind |-> "dir",
         sound |-> TRUE,
         inodes |-> [n \in {rootInodeNumber} |-> DirInode(<<blocks>>)]]

DirTrees ==
    {DirTree(lens, per, csum, sub, bad) :
        lens \in ExtentLengths, per \in 1 .. MaxPerBlock, csum \in BOOLEAN,
        sub \in BOOLEAN, bad \in BadRecLens}
    \cup {LongDirTree(per, csum) : per \in 1 .. MaxPerBlock, csum \in BOOLEAN}

InitDir ==
    /\ dirIn \in DirTrees
    /\ listing = None
    /\ listingPkg = None
    /\ IdleConstruct
    /\ IdleExtents
    /\ IdleRead
    /\ IdleInode
    /\ IdleFs
    /\ IdleConc
    /\ IdleLegacy
    /\ IdleMode

ListEntries ==
    /\ listing.kind = "none"
    /\ listing' = listEntries(dirIn, W(rootInodeNumber))
    /\ UNCHANGED <<dirIn, listingPkg, exceptDir>>

Walk ==
    /\ listingPkg.kind = "none"
    /\ listingPkg' = walkFrom(dirIn, W(rootInodeNumber), <<>>)
    /\ UNCHANGED <<dirIn, listing, exceptDir>>

NextDir == ListEntries \/ Walk

SpecDir == InitDir /\ [][NextDir]_vars

\* ------------------------------------------------------------------------
\* Inode locator (src/unnamed/part_002, src/pkg/ext4.go).
\*
\* An image of this family is [sectors, sb, itable]: sb the fields of its
\* superblock, itable[g] the first block of the inode table of group g - 1,
\* which the g-th descriptor of the table at block 1 holds in its
\* InodeTableLo; every other byte of the descriptor table is zero.
\* ------------------------------------------------------------------------

\* Blocks and inodes of a group of these images, and the block of a group
\* its inode table starts at.
GroupBlocks == 32
GroupInodes == 4
TableBlock == 4

\* Go's / and % on int64: the quotient is truncated toward zero.
GoDiv(a, b) == IF a >= 0 THEN a \div b ELSE -((-a) \div b)
GoMod(a, b) == a - b * GoDiv(a, b)

\* The little-endian uint32 at byte off of the image.
TableWord(img, off) ==
    LET sb == DecodeSuperblock(img.sb)
        rel == off - GetBlockSize(sb)
        size == IF FeatureInCompat64bit(sb) THEN 64 ELSE 32
    IN  IF rel >= 0 /\ rel % size = 8 /\ rel \div size < Len(img.itable)
        THEN img.itable[(rel \div size) + 1]
        ELSE 0

\* binary.Read into GroupDescriptor of the 64 bytes at byte "at".
DecodeDescriptor(img, at) ==
    [InodeTableLo |-> TableWord(img, at + 8), InodeTableHi |-> TableWord(img, at + 40)]

\* (int64(gd.InodeTableHi) << 32) | int64(gd.InodeTableLo): the sum, the low
\* word being below 2^32.
GetInodeTableLoc(gd, featureInCompat64bit) ==
    IF featureInCompat64bit
    THEN gd.InodeTableHi * Base * Base + gd.InodeTableLo
    ELSE gd.InodeTableLo

\* Entries a caller's store holds at most.
CacheSlots == 2

\* The cache of a FileSystem value: the default, which holds nothing, or a
\* key-value store of the caller.
MockCache == [kind |-> "mock"]
StoreCache(held) == [kind |-> "store", held |-> held]

\* A key that does not tell one inode number from another.
sharedCacheKey(n) == <<"ext4:", 0>>

\* fmt.Sprintf("ext4:%d", n)
inodeCacheKey(n) == <<"ext4:", n>>

\* Cache.Get(key): mockCache holds nothing; a store answers with what was
\* added under the key.
cacheGet(c, key) ==
    IF c.kind = "store" /\ key \in DOMAIN c.held
    THEN [ok |-> TRUE, value |-> c.held[key]]
    ELSE [ok |-> FALSE]

\* Cache.Add(key, value): the caches the call may leave. mockCache keeps
\* nothing; a store keeps the value, and when it is full it first drops an
\* entry of its choosing.
cacheAdd(c, key, value) ==
    IF c.kind = "mock" THEN {c}
    ELSE LET put(h) == [k \in DOMAIN h \cup {key} |-> IF k = key THEN value ELSE h[k]]
             drop(h, v) == [k \in DOMAIN h \ {v} |-> h[k]]
         IN  IF key \in DOMAIN c.held \/ Cardinality(DOMAIN c.held) < CacheSlots
             THEN {StoreCache(put(c.held))}
             ELSE {StoreCache(put(drop(c.held, v))) : v \in DOMAIN c.held}

\* getInode(inodeAddress) of package pkg on the filesystem value fs of
\* image img, which is also what getInode of package ext4 does when its
\* cache does not hold the inode. A found inode is reported by the image
\* offset its bytes were decoded from.
getInodePkg(fs, img, inodeAddress) ==
    LET ipg == WSmall(fs.sb.InodePerGroup)
        g == GoDiv(inodeAddress - 1, ipg)
    IN  IF g < 0 \/ g >= Len(fs.gds)
        THEN Panic("index out of range")
        ELSE
        LET bgd == DecodeDescriptor(img, fs.gds[g + 1].at)
            index == GoMod(inodeAddress - 1, ipg)
            physicalOffset ==
                GetInodeTableLoc(bgd, FeatureInCompat64bit(fs.sb)) * GetBlockSize(fs.sb)
                    + index * fs.sb.InodeSize
            inodeOffset == GoMod(physicalOffset, SectorSize)
            seekOffset == physicalOffset - GoMod(physicalOffset, SectorSize)
        IN  IF seekOffset < 0 \/ seekOffset + SectorSize > ImageLen(img)
            THEN Err("failed to read inode")
            ELSE IF inodeOffset < 0
            THEN Panic("slice bounds out of range")
            ELSE IF SectorSize - inodeOffset < 256
            THEN \* binary.Size(Inode{}) is 256
                 Err("failed to read binary")
            ELSE [kind |-> "inode", at |-> physicalOffset]

\* getInode(inodeAddress) of package ext4 with the cache c: what it ends
\* with, whether the cache answered (hit), and whether it called Add.
getInode(fs, c, img, inodeAddress) ==
    LET got == cacheGet(c, inodeCacheKey(inodeAddress))
    IN  IF got.ok THEN [res |-> got.value, hit |-> TRUE, add |-> FALSE]
        ELSE LET res == getInodePkg(fs, img, inodeAddress)
             IN  [res |-> res, hit |-> FALSE, add |-> res.kind = "inode"]

\* ------------------------------------------------------------------------
\* Images the locator is run on: one to MaxGroups groups of GroupBlocks
\* blocks and GroupInodes inodes.
\* ------------------------------------------------------------------------

InodeImage(groups, log, isize, feat) ==
    [sectors |-> (groups * GroupBlocks * 1024 * Pow2(log)) \div SectorSize,
     sb |-> [Magic |-> <<83, 239>>,
             InodeCount |-> Halves(groups * GroupInodes),
             BlockCountLo |-> Halves(groups * GroupBlocks),
             BlockCountHi |-> Halves(0),
             BlockPerGroup |-> Halves(GroupBlocks),
             InodePerGroup |-> Halves(GroupInodes),
             LogBlockSize |-> log,
             InodeSize |-> isize,
             FeatureIncompat |-> feat],
     itable |-> [g \in 1 .. groups |-> (g - 1) * GroupBlocks + TableBlock]]

InodeImages ==
    {InodeImage(g, log, isize, feat) :
        g \in 1 .. MaxGroups, log \in {0, 2}, isize \in {128, 256},
        feat \in {{}, {"64BIT"}}}

InitInode ==
    /\ inodeIn \in InodeImages
    /\ ifs = None
    /\ lookup = None
    /\ icache \in {MockCache, StoreCache(<<>>)}
    /\ IdleConstruct
    /\ IdleExtents
    /\ IdleRead
    /\ IdleDir
    /\ IdleFs
    /\ IdleConc
    /\ IdleLegacy
    /\ IdleMode

\* NewFS of package pkg on the image.
Mount ==
    /\ ifs.kind = "none"
    /\ ifs' = NewFSPkgResult(inodeIn)
    /\ UNCHANGED <<inodeIn, lookup, icache, exceptInode>>

\* The inode numbers asked for: those of the image, 0, and the numbers of
\* one group and one more behind the last, as a directory record may hold.
InodeNumbers == 0 .. WSmall(DecodeSuperblock(inodeIn.sb).InodeCount) + GroupInodes + 1

\* One getInode call.
GetInode ==
    /\ ifs.kind = "fs"
    /\ \E n \in InodeNumbers :
         \E r \in {getInode(ifs, icache, inodeIn, n)} :
            /\ lookup' = [n |-> n, res |-> r.res, hit |-> r.hit]
            /\ icache' \in IF r.add THEN cacheAdd(icache, inodeCacheKey(n), r.res)
                            ELSE {icache}
    /\ UNCHANGED <<inodeIn, ifs, exceptInode>>

NextInode == Mount \/ GetInode

SpecInode == InitInode /\ [][NextInode]_vars

\* ------------------------------------------------------------------------
\* The io/fs facade (src/unnamed/part_002: ReadDir, readDirEntry,
\* listFileInfo, listEntries, Stat, ReadDirInfo, Open, file).
\*
\* An image of this family is [len, bytes, inodes]: its length in bytes,
\* the bytes of its directory blocks by block number (a block it does not
\* name is zero), and by inode number the fields of the inode: Mode, Flags,
\* Size and region, the fifteen little-endian words of BlockOrExtents. A
\* call carries c = [cur, asked]: the position of the shared reader ext4.r
\* and the inode numbers handed to getInode so far. A path is the sequence
\* of its segments, each the bytes of a name; <<>> is "/".
\* ------------------------------------------------------------------------

EXTENTS_FL == 524288

ErrNotExist == Err("file does not exist")
ErrInvalid == Err("invalid argument")
ErrOpenSymlink == Err("open symlink does not support")

\* a & b on unsigned integers.
RECURSIVE BitAnd(_, _)
BitAnd(a, b) ==
    IF a = 0 \/ b = 0 THEN 0
    ELSE 2 * BitAnd(a \div 2, b \div 2) + (IF a % 2 = 1 /\ b % 2 = 1 THEN 1 ELSE 0)

\* Inode.IsDir()
IsDir(inode) == BitAnd(inode.Mode, 16384) # 0 /\ BitAnd(inode.Mode, 32768) = 0

\* Inode.IsRegular()
IsRegular(inode) == BitAnd(inode.Mode, 32768) # 0 /\ BitAnd(inode.Mode, 16384) = 0

\* Inode.IsSocket()
IsSocket(inode) == BitAnd(inode.Mode, 49152) # 0

\* Inode.IsSymlink()
IsSymlink(inode) == BitAnd(inode.Mode, 40960) # 0

\* The test Open makes without the symlink bits: no inode is a symlink.
NeverSymlink(inode) == FALSE

\* Open: dir.inode.Mode&0xA000 == 0xA000
OpensAsSymlink(inode) == BitAnd(inode.Mode, 40960) = 40960

\* ext4.getInode(n) as far as the facade uses it: the record the inode
\* tables hold for the number, zero bytes where the image holds none.
ZeroInode == [Mode |-> 0, Flags |-> 0, Size |-> 0, region |-> [i \in 1 .. 15 |-> 0]]

inodeAt(img, n) == IF n \in DOMAIN img.inodes THEN img.inodes[n] ELSE ZeroInode

\* The 60 bytes of BlockOrExtents decoded as an extent node: ExtentHeader
\* (Magic, Entries, Max, Depth as uint16, Generation), then four records of
\* twelve bytes, read as Extent in a leaf and as ExtentInternal otherwise.
RootNode(region) ==
    [Depth |-> region[2] \div Base,
     Entries |-> region[1] \div Base,
     items |-> [i \in 1 .. 4 |->
                  [Block |-> region[3 * i + 1],
                   Len |-> region[3 * i + 2] % Base,
                   StartHi |-> region[3 * i + 2] \div Base,
                   StartLo |-> region[3 * i + 3],
                   LeafLow |-> region[3 * i + 2],
                   LeafHigh |-> region[3 * i + 3] % Base]]]

\* F applied to the value of v: a result that is used more than once is
\* computed once.
With(v, F(_)) == CHOOSE y \in {F(x) : x \in {v}} : TRUE

\* ext4.Extents(inode) and the call of ext4.extents in file: the region is
\* decoded as an extent node whatever the inode's Flags.
ExtentsOf(img, inode) ==
    extentsFrom([len |-> W(img.len), nodes |-> [o \in {} |-> ZeroNode]], BlockSize,
                RootNode(inode.region), EntryCap(60), <<>>, TRUE)

\* Seek(b * BlockSize) and readBlock(ext4.r, BlockSize): the block as
\* 32-bit words, an error where the image ends before the block does; a
\* block the image says nothing about holds zeros.
blockWords(img, b) ==
    IF (b + 1) * BlockSize > img.len THEN Err("failed to read block")
    ELSE [kind |-> "ok",
          words |-> IF b \in DOMAIN img.words THEN img.words[b]
                    ELSE [i \in 1 .. BlockSize \div 4 |-> 0]]

\* A scan of a block's words that passes over the zeros instead of ending
\* at the first.
ScanPastZeros(ws, i) == SelectSeq(SubSeq(ws, i, Len(ws)), LAMBDA w : w # 0)

\* The loop over the words of an indirect block, from the i-th on: it ends
\* at the first that is 0 and at the end of the block.
ScanWords(ws, i) ==
    LET zeros == {k \in i .. Len(ws) : ws[k] = 0}
        end == IF zeros = {} THEN Len(ws)
               ELSE (CHOOSE k \in zeros : \A j \in zeros : k <= j) - 1
    IN  SubSeq(ws, i, end)

resolveSingleIndirectBlockAddress(img, a) ==
    With(blockWords(img, a), LAMBDA b :
        IF b.kind = "err" THEN Err("failed to read directory entry")
        ELSE [kind |-> "ok", addrs |-> ScanWords(b.words, 1)])

\* The body of the loop of resolveDoubleIndirectBlockAddress for the
\* pointers ps from the i-th on, acc the addresses appended so far.
RECURSIVE singlesOf(_, _, _, _)
singlesOf(img, ps, i, acc) ==
    IF i > Len(ps) THEN [kind |-> "ok", addrs |-> acc]
    ELSE With(resolveSingleIndirectBlockAddress(img, ps[i]), LAMBDA r :
            IF r.kind = "err"
            THEN Err("failed to read single indirect block addressing")
            ELSE singlesOf(img, ps, i + 1, acc \o r.addrs))

resolveDoubleIndirectBlockAddress(img, a) ==
    With(blockWords(img, a), LAMBDA b :
        IF b.kind = "err" THEN Err("failed to read directory entry")
        ELSE singlesOf(img, ScanWords(b.words, 1), 1, <<>>))

\* The body of the loop of resolveTripleIndirectBlockAddress.
RECURSIVE doublesOf(_, _, _, _)
doublesOf(img, ps, i, acc) ==
    IF i > Len(ps) THEN [kind |-> "ok", addrs |-> acc]
    ELSE With(resolveDoubleIndirectBlockAddress(img, ps[i]), LAMBDA r :
            IF r.kind = "err"
            THEN Err("failed to read double indirect block addressing")
            ELSE doublesOf(img, ps, i + 1, acc \o r.addrs))

resolveTripleIndirectBlockAddress(img, a) ==
    With(blockWords(img, a), LAMBDA b :
        IF b.kind = "err" THEN Err("failed to read directory entry")
        ELSE doublesOf(img, ScanWords(b.words, 1), 1, <<>>))

\* Inode.GetBlockAddresses: the 60 bytes of BlockOrExtents are decoded as
\* BlockAddressing, twelve direct pointers and the three indirect ones.
GetBlockAddresses(img, inode) ==
    LET direct == ScanWords(SubSeq(inode.region, 1, 12), 1)
        single == IF inode.region[13] # 0
                  THEN resolveSingleIndirectBlockAddress(img, inode.region[13])
                  ELSE [kind |-> "ok", addrs |-> <<>>]
        double == IF inode.region[14] # 0
                  THEN resolveDoubleIndirectBlockAddress(img, inode.region[14])
                  ELSE [kind |-> "ok", addrs |-> <<>>]
        triple == IF inode.region[15] # 0
                  THEN resolveTripleIndirectBlockAddress(img, inode.region[15])
                  ELSE [kind |-> "ok", addrs |-> <<>>]
    IN  IF single.kind = "err"
        THEN Err("failed to read single indirect block addressing")
        ELSE IF double.kind = "err"
        THEN Err("failed to read double indirect block addressing")
        ELSE IF triple.kind = "err"
        THEN Err("failed to read triple indirect block addressing")
        ELSE [kind |-> "ok",
              addrs |-> direct \o single.addrs \o double.addrs \o triple.addrs]

\* The bytes of block b of an image.
ImageBlock(img, b) == IF b \in DOMAIN img.bytes THEN img.bytes[b] ELSE ZeroBytes(BlockSize)

\* The bytes readBlock(ext4.r, size) copies with the reader at pos: they are
\* cut from the blocks they lie in.
ReadBytes(img, pos, size) ==
    LET b0 == pos \div BlockSize
        b1 == (pos + size - 1) \div BlockSize
    IN  SubSeq(Flatten([k \in 1 .. (b1 - b0 + 1) |-> ImageBlock(img, b0 + k - 1)]),
               (pos % BlockSize) + 1, (pos % BlockSize) + size)

\* The loop of listEntries over the extents, from the i-th on; seeking is
\* whether the Seek before readBlock is made.
RECURSIVE entriesOfExtents(_, _, _, _, _, _)
entriesOfExtents(img, es, i, entries, cur, seeking) ==
    IF i > Len(es) THEN [kind |-> "ok", entries |-> entries, cur |-> cur]
    ELSE
    LET e == es[i]
        at == IF seeking THEN WSmall(offset(e)) * BlockSize ELSE cur
        size == BlockSize * e.Len
    IN  IF at + size > img.len
        THEN [kind |-> "err", msg |-> "failed to read directory entry",
              cur |-> IF at > img.len THEN at ELSE img.len]
        ELSE With(ReadBytes(img, at, size), LAMBDA directoryReader :
             With(dirLoop(img, directoryReader, 0, entries, FALSE), LAMBDA r :
                 IF r.kind = "err"
                 THEN [kind |-> "err", msg |-> r.msg, cur |-> at + size]
                 ELSE entriesOfExtents(img, es, i + 1, r.entries, at + size, seeking)))

\* listEntries with the Seek to the extent left out: the fault that makes a
\* listing depend on where the reader was left.
listEntriesNoSeek(img, ino, c) ==
    LET c1 == [c EXCEPT !.asked = @ \cup {ino}]
    IN  With(ExtentsOf(img, inodeAt(img, ino)), LAMBDA x :
        IF x.kind = "err" THEN [res |-> Err("failed to get extents"), c |-> c1]
        ELSE With(entriesOfExtents(img, x.extents, 1, <<>>, c1.cur, FALSE), LAMBDA r :
                 [res |-> IF r.kind = "err" THEN Err(r.msg)
                          ELSE [kind |-> "ok", entries |-> r.entries, used |-> x.extents],
                  c |-> [c1 EXCEPT !.cur = r.cur]]))

\* ext4.listEntries(ino) on the shared reader; "used" is the extent list the
\* data blocks were taken from.
listEntriesOn(img, ino, c) ==
    LET c1 == [c EXCEPT !.asked = @ \cup {ino}]
    IN  With(ExtentsOf(img, inodeAt(img, ino)), LAMBDA x :
        IF x.kind = "err" THEN [res |-> Err("failed to get extents"), c |-> c1]
        ELSE With(entriesOfExtents(img, x.extents, 1, <<>>, c1.cur, TRUE), LAMBDA r :
                 [res |-> IF r.kind = "err" THEN Err(r.msg)
                          ELSE [kind |-> "ok", entries |-> r.entries, used |-> x.extents],
                  c |-> [c1 EXCEPT !.cur = r.cur]]))

\* The FileInfo listFileInfo makes of a record.
FileInfoOf(img, entry) ==
    [name |-> entry.Name, ino |-> WSmall(entry.Inode),
     inode |-> inodeAt(img, WSmall(entry.Inode))]

\* ext4.listFileInfo(ino): getInode is called for every record listed.
listFileInfo(img, ino, c) ==
    With(listEntriesOn(img, ino, c), LAMBDA l :
        IF l.res.kind = "err"
        THEN [res |-> Err("failed to get directory entries"), c |-> l.c]
        ELSE [res |-> [kind |-> "ok", used |-> l.res.used,
                       infos |-> [i \in 1 .. Len(l.res.entries) |->
                                    FileInfoOf(img, l.res.entries[i])]],
              c |-> [l.c EXCEPT !.asked =
                        @ \cup {WSmall(l.res.entries[i].Inode) :
                                    i \in 1 .. Len(l.res.entries)}]])

\* The entries readDirEntry returns for a listing: "." and ".." left out.
SkipDots(infos) == SelectSeq(infos, LAMBDA fi : fi.name # Dot /\ fi.name # DotDot)

Matches(infos, name) == {j \in 1 .. Len(infos) : infos[j].name = name}

SetMax(S) == CHOOSE m \in S : \A k \in S : k <= m
SetMin(S) == CHOOSE m \in S : \A k \in S : m <= k

\* The loop of readDirEntry over the segments, from the i-th on, infos being
\* the listing of the directory reached so far.
RECURSIVE descendDirs(_, _, _, _, _)
descendDirs(img, dirs, i, infos, c) ==
    LET found == Matches(infos, dirs[i])
    IN  IF \E j \in found : ~IsDir(infos[j].inode)
        THEN [res |-> Err("is file, directory"), c |-> c]
        ELSE IF found = {} THEN [res |-> ErrNotExist, c |-> c]
        ELSE
        LET currentIno == infos[SetMax(found)].ino
        IN  With(listFileInfo(img, currentIno, c), LAMBDA l :
            IF l.res.kind = "err"
            THEN [res |-> Err("failed to list directory entries inode"), c |-> l.c]
            ELSE IF i # Len(dirs)
            THEN descendDirs(img, dirs, i + 1, l.res.infos, l.c)
            ELSE [res |-> [kind |-> "ok", ino |-> currentIno, used |-> l.res.used,
                           entries |-> SkipDots(l.res.infos)],
                  c |-> l.c])

\* ext4.readDirEntry(name), dirs the segments of the cleaned name.
readDirEntry(img, dirs, c) ==
    With(listFileInfo(img, rootInodeNumber, c), LAMBDA root :
        IF root.res.kind = "err"
        THEN [res |-> Err("failed to list file infos"), c |-> root.c]
        ELSE IF dirs = <<>>
        THEN [res |-> [kind |-> "ok", ino |-> rootInodeNumber, used |-> root.res.used,
                       entries |-> SkipDots(root.res.infos)],
              c |-> root.c]
        ELSE descendDirs(img, dirs, 1, root.res.infos, root.c))

\* ext4.ReadDir(path)
ReadDirResult(img, path, c) ==
    With(readDirEntry(img, path, c), LAMBDA d :
        IF d.res.kind = "err" THEN [res |-> Err(d.res.msg), c |-> d.c] ELSE d)

Front(path) == SubSeq(path, 1, Len(path) - 1)
Last(path) == path[Len(path)]

\* ext4.file(fi, name): the File of an inode, by its extents.
fileOn(img, fi) ==
    LET x == ExtentsOf(img, fi.inode)
    IN  IF x.kind = "err" THEN x
        ELSE [kind |-> "file", info |-> fi, extents |-> x.extents]

\* ext4.Open(name)
OpenResult(img, path, c) ==
    IF path = <<>> THEN [res |-> ErrInvalid, c |-> c]
    ELSE
    With(ReadDirResult(img, Front(path), c), LAMBDA d :
        IF d.res.kind = "err"
        THEN [res |-> Err("failed to read directory"), c |-> d.c]
        ELSE
        LET es == d.res.entries
            hits == {j \in 1 .. Len(es) : ~IsDir(es[j].inode) /\ es[j].name = Last(path)}
        IN  IF hits = {} THEN [res |-> ErrNotExist, c |-> d.c]
            ELSE LET dir == es[SetMin(hits)]
                 IN  IF OpensAsSymlink(dir.inode)
                     THEN [res |-> ErrOpenSymlink, c |-> d.c]
                     ELSE With(fileOn(img, dir), LAMBDA f :
                              [res |-> IF f.kind = "err" THEN Err("failed to get file")
                                       ELSE f,
                               c |-> d.c]))

\* ext4.ReadDirInfo(name)
ReadDirInfo(img, path, c) ==
    IF path = <<>>
    THEN [res |-> [kind |-> "info", name |-> <<47>>, ino |-> 0,
                   inode |-> inodeAt(img, rootInodeNumber)],
          c |-> [c EXCEPT !.asked = @ \cup {rootInodeNumber}]]
    ELSE
    With(readDirEntry(img, Front(path), c), LAMBDA d :
        IF d.res.kind = "err" THEN [res |-> Err("failed to read dir entry"), c |-> d.c]
        ELSE LET hits == Matches(d.res.entries, Last(path))
             IN  IF hits = {} THEN [res |-> ErrNotExist, c |-> d.c]
                 ELSE LET fi == d.res.entries[SetMin(hits)]
                      IN  [res |-> [kind |-> "info", name |-> fi.name, ino |-> fi.ino,
                                    inode |-> fi.inode],
                           c |-> d.c])

\* ext4.Stat(name)
StatResult(img, path, c) ==
    With(OpenResult(img, path, c), LAMBDA f :
        IF f.res.kind = "err"
        THEN With(ReadDirInfo(img, path, f.c), LAMBDA info :
                 IF info.res.kind = "err"
                 THEN [res |-> Err("failed to read dir info"), c |-> info.c]
                 ELSE info)
        ELSE [res |-> [kind |-> "info", name |-> f.res.info.name, ino |-> f.res.info.ino,
                       inode |-> f.res.info.inode],
              c |-> f.c])

\* ------------------------------------------------------------------------
\* Images the facade is run on: a root directory of two blocks (extents at
\* blocks 3 and 4) holding a regular file "a", a symlink "b", a directory
\* "c" (block 5, holding a regular file "d") and a regular file "e"; with
\* gap, the block of "e" begins with a record of inode 0 (a deleted "g").
\* legacy names what is stored without extents: nothing, the directory "c"
\* or the file "a".
\* ------------------------------------------------------------------------

\* The region of an inode with extents: a leaf header and its records, each
\* <<logical block, length, first block>>.
ExtentRegion(es) ==
    [i \in 1 .. 15 |->
        IF i = 1 THEN 62218 + Len(es) * Base
        ELSE IF i = 2 THEN 4
        ELSE IF i = 3 THEN 0
        ELSE LET k == (i - 1) \div 3
                 f == (i - 1) % 3
             IN  IF k > Len(es) THEN 0
                 ELSE IF f = 0 THEN es[k][1]
                 ELSE IF f = 1 THEN es[k][2]
                 ELSE es[k][3]]

\* The region of an inode without: its direct block pointers.
LegacyRegion(blocks) == [i \in 1 .. 15 |-> IF i <= Len(blocks) THEN blocks[i] ELSE 0]

DataRegion(es, legacy) ==
    IF legacy THEN LegacyRegion([i \in 1 .. Len(es) |-> es[i][3]]) ELSE ExtentRegion(es)

FsInode(mode, size, es, legacy) ==
    [Mode |-> mode, Flags |-> IF legacy THEN 0 ELSE EXTENTS_FL, Size |-> size,
     region |-> DataRegion(es, legacy)]

NameA == <<97>>
NameB == <<98>>
NameC == <<99>>
NameD == <<100>>
NameE == <<101>>
NameG == <<103>>
NameX == <<120>>

FsImage(gap, legacy) ==
    [len |-> 8 * BlockSize,
     bytes |-> [b \in {3, 4, 5} |->
        BlockBytes(BlockOf(
            IF b = 3
            THEN DotRecords(rootInodeNumber, rootInodeNumber)
                    \o <<Record(20, 1, NameA), Record(21, 7, NameB), Record(SubDir, 2, NameC)>>
            ELSE IF b = 4
            THEN (IF gap THEN <<Record(0, 1, NameG)>> ELSE <<>>) \o <<Record(23, 1, NameE)>>
            ELSE DotRecords(SubDir, rootInodeNumber) \o <<Record(22, 1, NameD)>>,
            FALSE))],
     inodes |-> [n \in {rootInodeNumber, SubDir, 20, 21, 22, 23} |->
        IF n = rootInodeNumber
        THEN FsInode(DIRECTORY_MODE, 2 * BlockSize, <<<<0, 1, 3>>, <<1, 1, 4>>>>, FALSE)
        ELSE IF n = SubDir
        THEN FsInode(DIRECTORY_MODE, BlockSize, <<<<0, 1, 5>>>>, legacy = "dir")
        ELSE IF n = 20 THEN FsInode(33188, BlockSize, <<<<0, 1, 6>>>>, legacy = "file")
        ELSE IF n = 21 THEN [Mode |-> 41471, Flags |-> 0, Size |-> 1,
                             region |-> LegacyRegion(<<97>>)]
        ELSE IF n = 22 THEN FsInode(33188, BlockSize, <<<<0, 1, 7>>>>, FALSE)
        ELSE FsInode(33188, 0, <<>>, FALSE)]]

Paths == {<<>>, <<NameA>>, <<NameB>>, <<NameC>>, <<NameC, NameD>>, <<NameE>>, <<NameX>>}

FsInputs ==
    {[kind |-> "fs", img |-> FsImage(gap, legacy), path |-> p] :
        gap \in BOOLEAN, legacy \in {"none", "dir", "file"}, p \in Paths}

\* What is kept of the calls of one operation on the path drawn: the first
\* result, the last, and the calls made (counted to 2).
NoCalls == [first |-> None, last |-> None, calls |-> 0]

Called(h, res) ==
    [first |-> IF h.calls = 0 THEN res ELSE h.first,
     last |-> res,
     calls |-> Min(h.calls + 1, 2)]

InitFs ==
    /\ fsIn \in FsInputs
    \* NewFS left the reader after the sector of the descriptor table
    /\ ctx = [cur |-> BlockSize + SectorSize, asked |-> {}]
    /\ dirRes = NoCalls
    /\ statRes = NoCalls
    /\ openRes = NoCalls
    /\ handle = None
    /\ IdleConstruct
    /\ IdleExtents
    /\ IdleRead
    /\ IdleDir
    /\ IdleInode
    /\ IdleConc
    /\ IdleLegacy
    /\ IdleMode

\* The paths operated on with an input: the one drawn, whose results are
\* kept, and two more, a directory and a file.
PathsOf(in) == {in.path, <<NameC>>, <<NameA>>}

\* ReadDir on a path.
FsReadDir ==
    \E p \in PathsOf(fsIn) :
        \E r \in {ReadDirResult(fsIn.img, p, ctx)} :
            /\ ctx' = r.c
            /\ dirRes' = IF p = fsIn.path THEN Called(dirRes, r.res) ELSE dirRes
            /\ UNCHANGED <<fsIn, statRes, openRes, handle, exceptFs>>

FsStat ==
    \E p \in PathsOf(fsIn) :
        \E r \in {StatResult(fsIn.img, p, ctx)} :
            /\ ctx' = r.c
            /\ statRes' = IF p = fsIn.path THEN Called(statRes, r.res) ELSE statRes
            /\ UNCHANGED <<fsIn, dirRes, openRes, handle, exceptFs>>

\* The File that File.Read of file.go reads, for the File f that Open made:
\* its table is made of the extents.
tableFileOn(img, f) ==
    [kind |-> "tfile",
     disk |-> [len |-> W(img.len)],
     buffer |-> <<>>,
     isNil |-> FALSE,
     currentBlock |-> -1,
     size |-> f.info.inode.Size,
     blockSize |-> BlockSize,
     table |-> TableOf(BlockSize, f.extents),
     h |-> History]

\* Open on a path.
FsOpen ==
    \E p \in PathsOf(fsIn) :
      \E r \in {OpenResult(fsIn.img, p, ctx)} :
        /\ ctx' = r.c
        /\ openRes' = IF p = fsIn.path THEN Called(openRes, r.res) ELSE openRes
        /\ handle' = IF r.res.kind = "file" THEN tableFileOn(fsIn.img, r.res) ELSE handle
        /\ UNCHANGED <<fsIn, dirRes, statRes, exceptFs>>

\* Where File.Read leaves the shared reader: after the block it fetched, if
\* it fetched one.
CursorAfterRead(f, cur) ==
    LET next == f.currentBlock + 1
    IN  IF ~f.isNil /\ RLen(f.buffer) = 0 /\ next * f.blockSize < f.size
           /\ next \in DOMAIN f.table
        THEN IF f.table[next] + f.blockSize <= WSmall(f.disk.len)
             THEN f.table[next] + f.blockSize
             ELSE IF f.table[next] > WSmall(f.disk.len) THEN f.table[next]
             ELSE WSmall(f.disk.len)
        ELSE cur

\* File.Read into a buffer of one block.
FsRead ==
    /\ handle.kind = "tfile"
    /\ handle' = TableReadResult(handle, BlockSize)
    /\ ctx' = [ctx EXCEPT !.cur = CursorAfterRead(handle, ctx.cur)]
    /\ UNCHANGED <<fsIn, dirRes, statRes, openRes, exceptFs>>

NextFs == FsReadDir \/ FsStat \/ FsOpen \/ FsRead

SpecFs == InitFs /\ [][NextFs]_vars

\* ------------------------------------------------------------------------
\* Two operations on one filesystem value, step by step (listEntries of
\* src/unnamed/part_002, File.Read of src/ext4/file.go).
\*
\* Each of the two runs one operation: the listing of a directory, or the
\* File.Read that fetches one block of a file. A step is one call on the
\* shared reader ext4.r: a Seek, or the readBlock that follows it. getInode
\* and the extent walk use ReadAt and are part of the first step.
\* ------------------------------------------------------------------------

Procs == {1, 2}

\* The operations drawn: the listing of the root, that of the directory
\* "c", and the read of the block of the file "a".
ConcOps ==
    {[kind |-> "list", ino |-> rootInodeNumber],
     [kind |-> "list", ino |-> SubDir],
     [kind |-> "fread", ino |-> 20]}

ConcInputs == {[kind |-> "conc", img |-> FsImage(FALSE, "none"), ops |-> <<a, b>>] :
                    a \in ConcOps, b \in ConcOps}

\* What the operation returns when nothing else uses the reader: the
\* listing, or the bytes of the block by their place in the image.
AloneResult(img, op) ==
    IF op.kind = "list"
    THEN With(listEntriesOn(img, op.ino, [cur |-> 0, asked |-> {}]), LAMBDA l :
            IF l.res.kind = "err" THEN l.res
            ELSE [kind |-> "ok", entries |-> l.res.entries])
    ELSE [kind |-> "data", at |-> TableOf(BlockSize, ExtentsOf(img, inodeAt(img, op.ino)).extents)[0]]

NotStarted == [pc |-> "start", es |-> <<>>, i |-> 1, entries |-> <<>>, res |-> None]

InitConc ==
    /\ concIn \in ConcInputs
    /\ cursor = BlockSize + SectorSize
    /\ procs = [p \in Procs |-> NotStarted]
    /\ IdleConstruct
    /\ IdleExtents
    /\ IdleRead
    /\ IdleDir
    /\ IdleInode
    /\ IdleFs
    /\ IdleLegacy
    /\ IdleMode

\* The operation up to its first call on the reader: the inode is fetched
\* and its extents are walked.
Begin(p) ==
    /\ procs[p].pc = "start"
    /\ \E x \in {ExtentsOf(concIn.img, inodeAt(concIn.img, concIn.ops[p].ino))} :
         procs' = [procs EXCEPT ![p] =
            IF x.kind = "err"
            THEN [@ EXCEPT !.pc = "done", !.res = Err("failed to get extents")]
            ELSE IF x.extents = <<>>
            THEN [@ EXCEPT !.pc = "done", !.res = [kind |-> "ok", entries |-> <<>>]]
            ELSE [@ EXCEPT !.pc = "seek", !.es = x.extents]]
    /\ UNCHANGED <<concIn, cursor, exceptConc>>

\* ext4.r.Seek(e.offset()*ext4.sb.GetBlockSize(), 0) of listEntries;
\* f.fs.r.Seek(offset, io.SeekStart) of File.Read.
SeekStep(p) ==
    /\ procs[p].pc = "seek"
    /\ cursor' = WSmall(offset(procs[p].es[procs[p].i])) * BlockSize
    /\ procs' = [procs EXCEPT ![p].pc = "read"]
    /\ UNCHANGED <<concIn, exceptConc>>

\* readBlock on the reader where it stands, and what the operation does
\* with the bytes before its next call on the reader.
ReadStep(p) ==
    /\ procs[p].pc = "read"
    /\ LET me == procs[p]
           size == BlockSize * (IF concIn.ops[p].kind = "list" THEN me.es[me.i].Len ELSE 1)
       IN  IF cursor + size > concIn.img.len
           THEN /\ cursor' = IF cursor > concIn.img.len THEN cursor ELSE concIn.img.len
                /\ procs' = [procs EXCEPT ![p] =
                                [@ EXCEPT !.pc = "done", !.res = Err("failed to read block")]]
           ELSE /\ cursor' = cursor + size
                /\ IF concIn.ops[p].kind = "fread"
                   THEN procs' = [procs EXCEPT ![p] =
                            [@ EXCEPT !.pc = "done", !.res = [kind |-> "data", at |-> cursor]]]
                   ELSE \E r \in {dirLoop(concIn.img, ReadBytes(concIn.img, cursor, size), 0,
                                          me.entries, FALSE)} :
                          procs' = [procs EXCEPT ![p] =
                            IF r.kind = "err"
                            THEN [@ EXCEPT !.pc = "done", !.res = r]
                            ELSE IF me.i = Len(me.es)
                            THEN [@ EXCEPT !.pc = "done",
                                           !.entries = r.entries,
                                           !.res = [kind |-> "ok", entries |-> r.entries]]
                            ELSE [@ EXCEPT !.pc = "seek", !.i = me.i + 1,
                                           !.entries = r.entries]]
    /\ UNCHANGED <<concIn, exceptConc>>

NextConc == \E p \in Procs : Begin(p) \/ SeekStep(p) \/ ReadStep(p)

SpecConc == InitConc /\ [][NextConc]_vars

\* ------------------------------------------------------------------------
\* Properties.
\* ------------------------------------------------------------------------

Opened == file.kind \in {"file", "tfile", "panic"}

\* The last Read was the first to signal the end of the stream.
FirstEOF == Opened /\ file.h.ret.err = "EOF" /\ ~file.h.ended

\* C1: for every regular file and every non-empty caller buffer, the counts
\* returned by the Read calls up to and including the first end-of-stream
\* result sum to inode.size.
C1_FullReadYieldsSize == FirstEOF => file.h.sum = fin.size

\* A file of 6 bytes in one block, read 100 bytes at a time through the File
\* of FileSystem.file, has reached the end of the stream with another sum.
C1_ShortBufferRead ==
    /\ file.kind = "file"
    /\ fin.size = 6
    /\ fin.plen = 100
    /\ FirstEOF
    /\ file.h.sum # fin.size

\* C2: once inode.size bytes have been delivered, every later Read returns
\* the end-of-stream signal with count 0: no negative count, no further
\* data, no panic.
C2_ReadsPastEndReturnEOF ==
    (Opened /\ file.h.calls > 0 /\ file.h.prev = fin.size)
        => file.kind # "panic" /\ file.h.ret = [n |-> 0, err |-> "EOF"]

\* The File of FileSystem.file, all of inode.size bytes delivered, has
\* returned a negative count.
C2_NegativeCountAfterEnd ==
    /\ file.kind = "file"
    /\ file.h.calls > 0
    /\ file.h.prev = fin.size
    /\ file.h.ret.n < 0

\* C3: the stream delivered holds B zero bytes at every logical block no
\* extent covers and, at every covered block c of extent e, the B image
\* bytes at (e.physical_start + (c - e.logical_block)) * B.
C3_SparseBlocksReadAsZeros ==
    Opened => /\ Take(Content(fin), RLen(file.h.out)) = file.h.out
              /\ FirstEOF => file.h.out = Content(fin)

\* The file of one extent at logical block HoleBlocks, read to the end
\* through the File of FileSystem.file, delivered the extent's block alone.
C3_HoleSkipped ==
    /\ file.kind = "file"
    /\ fin.size = HoleFile.size
    /\ FirstEOF
    /\ file.h.out = Data(40 * BlockSize, BlockSize)

\* The image holds its superblock whole, the magic is 0xEF53, the group
\* counts agree (no 32-bit wrap in computing them) and the descriptor table
\* can be read.
Consistent(sb) ==
    /\ sb.BlockPerGroup # WZero
    /\ sb.InodePerGroup # WZero
    /\ WCeilDiv(GetBlockCount(sb), WSmall(sb.BlockPerGroup))
         = WCeilDiv(sb.InodeCount, WSmall(sb.InodePerGroup))

HoldsSuperblock(img) == ImageLen(img) >= GroupZeroPadding + SuperBlockSize

ValidImage(img) ==
    /\ HoldsSuperblock(img)
    /\ DecodeSuperblock(img.sb).Magic = Ext4Magic
    /\ Consistent(DecodeSuperblock(img.sb))
    /\ getGroupDescriptor(DecodeSuperblock(img.sb), img).kind = "ok"

\* C4: for an image with magic 0xEF53 and consistent group counts, NewFS
\* returns a filesystem whose stored superblock is the record decoded from
\* image bytes [1024, 2048).
C4_StoredSuperblockIsDecoded ==
    (fsExt4.kind # "none" /\ ValidImage(image))
        => fsExt4.kind = "fs" /\ fsExt4.sb = DecodeSuperblock(image.sb)

\* NewFS of package ext4 has ended in a panic on a valid image, on which
\* NewFS of package pkg returned a filesystem.
C4_ValidImagePanics ==
    /\ ValidImage(image)
    /\ fsExt4.kind = "panic"
    /\ fsPkg.kind = "fs"

C6_GroupCountMismatchIsError ==
    LET sb == DecodeSuperblock(image.sb)
    IN  (/\ fsPkg.kind # "none"
         /\ sb.BlockPerGroup # WZero
         /\ sb.InodePerGroup # WZero
         /\ ~Consistent(sb))
            => fsPkg.kind = "err"

\* NewFS returned a filesystem for 2^32 - 1 inodes at 8 per group (2^29
\* groups) and no block at all (0 groups).
C6_WrappedCountAccepted ==
    /\ fsPkg.kind = "fs"
    /\ image.sb.InodeCount = <<Base - 1, Base - 1>>
    /\ GetBlockCount(DecodeSuperblock(image.sb)) = WZero

Sorted(es) == \A i \in 1 .. Len(es) - 1 : es[i].Block <= es[i + 1].Block

\* C7: the list of leaf extents the walker returns is sorted by logical
\* block ascending, whatever the order of the records on disk.
C7_WalkerOutputSorted ==
    /\ walk.kind = "ok" => Sorted(walk.extents)
    /\ walkPkg.kind = "ok" => Sorted(walkPkg.extents)

\* On one tree the walker of package ext4 returned a sorted list and the
\* walker of package pkg one that is not.
C7_PkgWalkerUnsorted ==
    /\ walk.kind = "ok"
    /\ Sorted(walk.extents)
    /\ walkPkg.kind = "ok"
    /\ ~Sorted(walkPkg.extents)

LeafSet(t) == {t.leaves[i] : i \in 1 .. Len(t.leaves)}

\* C8: for one set of leaf extents the walker returns the same list whether
\* the set is stored at depth 0, 1 or 2, the nodes below the inode holding
\* up to (B - 12) / 12 records.
C8_SameListAtEveryDepth ==
    walk.kind # "none"
        => \A t \in Trees : LeafSet(t) = LeafSet(tree) => extents(t) = walk

\* The walker failed on ManyLeaves leaves kept in one leaf node of a block
\* of 1024 bytes, which holds up to 84 records.
C8_FullLeafNodeFails ==
    /\ walk.kind = "err"
    /\ tree.depth = 1
    /\ Len(tree.leaves) = ManyLeaves
    /\ ManyLeaves <= EntryCap(tree.B)

\* The records the blocks of directory n hold, and those among them that
\* hold a checksum.
RecordsOf(n) ==
    Flatten([i \in 1 .. Len(dirIn.inodes[n].blocks) |->
                Flatten(dirIn.inodes[n].blocks[i])])

RECURSIVE CountIn(_, _)
CountIn(ns, f) ==
    IF ns = {} THEN 0
    ELSE LET n == CHOOSE x \in ns : TRUE
         IN  Len(f[n]) + CountIn(ns \ {n}, f)

Checksums(n) == SelectSeq(RecordsOf(n), LAMBDA r : r.Flags = ChecksumFlags)

\* The entries es are those of the directories ns: none is named "." or
\* "..", and with the two of each directory and the checksum records they
\* are as many as the records of the blocks.
Enumerates(es, ns) ==
    /\ \A i \in 1 .. Len(es) : es[i].Name # Dot /\ es[i].Name # DotDot
    /\ Len(es) + 2 * Cardinality(ns) + CountIn(ns, [n \in ns |-> Checksums(n)])
         = CountIn(ns, [n \in ns |-> RecordsOf(n)])

\* C9: the enumeration of a directory yields no entry named "." or "..",
\* and the entries yielded, the two filtered and the checksum records are as
\* many as the records in all blocks of all extents of the directory.
C9_EnumerationCountsRecords ==
    /\ (listing.kind # "none" /\ dirIn.sound)
          => listing.kind = "ok" /\ Enumerates(listing.entries, {rootInodeNumber})
    /\ (listingPkg.kind # "none" /\ dirIn.sound)
          => listingPkg.kind = "ok" /\ Enumerates(listingPkg.entries, DOMAIN dirIn.inodes)

\* listEntries returned without error from a sound directory with an extent
\* of two blocks, each ended by a checksum record, and yielded fewer
\* entries than the blocks hold.
C9_SecondBlockUnread ==
    /\ dirIn.kind = "dir"
    /\ dirIn.sound
    /\ Len(dirIn.inodes[rootInodeNumber].blocks[1]) = 2
    /\ Len(Checksums(rootInodeNumber)) > 0
    /\ listing.kind = "ok"
    /\ Len(listing.entries) + 2 + Len(Checksums(rootInodeNumber))
         < Len(RecordsOf(rootInodeNumber))

\* C10: the enumeration fails when it decodes a record with
\* rec_len < 8 + name_len, and returns no entries then.
C10_ShortRecLenFails ==
    (listing.kind # "none" /\ ~dirIn.sound) => listing.kind = "err"

\* listEntries returned entries, the record with the short rec_len among
\* them, and no error.
C10_ShortRecLenYielded ==
    /\ listing.kind = "ok"
    /\ \E i \in 1 .. Len(listing.entries) :
          listing.entries[i].RecLen < 8 + listing.entries[i].NameLen

\* The descriptor size of a superblock: 64 under INCOMPAT_64BIT, else 32.
DescSize(sb) == IF FeatureInCompat64bit(sb) THEN 64 ELSE 32

\* C17: the number of group descriptors decoded at construction is
\* ceil(block_count / blocks_per_group), the count the consistency check
\* validated.
C17_DescriptorCountIsGroupCount ==
    LET sb == DecodeSuperblock(image.sb)
    IN  fsPkg.kind = "fs"
          => W(Len(fsPkg.gds))
               = WCeilDiv(GetBlockCount(sb), WSmall(sb.BlockPerGroup))

\* NewFS returned a filesystem with two descriptors for 8 blocks at 8 per
\* group, which make one group.
C17_ExtraDescriptor ==
    /\ fsPkg.kind = "fs"
    /\ GetBlockCount(DecodeSuperblock(image.sb)) = W(8)
    /\ DecodeSuperblock(image.sb).BlockPerGroup = W(8)
    /\ Len(fsPkg.gds) = 2

\* The image holds the sectors of the descriptor table NewFS reads for the
\* superblock: ceil(count * desc_size / 512) * 512 bytes from byte B on.
HoldsDescriptorTable(img) ==
    LET sb == DecodeSuperblock(img.sb)
        n == WSmall(GetGroupDescriptorTableCount(sb))
    IN  GetBlockSize(sb) + divWithRoundUp(n * DescSize(sb), SectorSize) * SectorSize
          <= ImageLen(img)

\* C18: the i-th group descriptor (from 0) is decoded from the table bytes
\* starting at i * desc_size, desc_size being 32 without INCOMPAT_64BIT and
\* 64 with it, and the descriptors are decoded from a read of
\* ceil(num_groups * desc_size / 512) * 512 bytes.
C18_DescriptorAtItsOffset ==
    LET sb == DecodeSuperblock(image.sb)
    IN  (/\ fsPkg.kind # "none"
         /\ HoldsSuperblock(image)
         /\ sb.Magic = Ext4Magic
         /\ Consistent(sb)
         /\ HoldsDescriptorTable(image))
            => /\ fsPkg.kind = "fs"
               /\ \A i \in 1 .. Len(fsPkg.gds) :
                    fsPkg.gds[i].at = GetBlockSize(sb) + (i - 1) * DescSize(sb)

\* NewFS returned a filesystem of 32-byte descriptors whose second
\* descriptor was decoded from byte 64 of the table.
C18_SecondDescriptorMisplaced ==
    /\ fsPkg.kind = "fs"
    /\ ~FeatureInCompat64bit(fsPkg.sb)
    /\ Len(fsPkg.gds) >= 2
    /\ fsPkg.gds[2].at = GetBlockSize(fsPkg.sb) + 64

\* The index records of a tree: those of its root and of the index nodes on
\* its disk.
IndexRecords(t) ==
    LET of(node) == IF node.Depth = 0 THEN {}
                    ELSE {node.items[i] : i \in 1 .. Len(node.items)}
    IN  of(t.root) \cup UNION {of(t.disk.nodes[o]) : o \in DOMAIN t.disk.nodes}

\* ((leaf_hi << 32) | leaf_lo) * B
ChildBlockOffset(it, B) ==
    WMulSmall(WAdd(WShl32(W(it.LeafHigh)), W(it.LeafLow)), B)

\* C20: for every index record the child node is read from byte offset
\* ((leaf_hi << 32) | leaf_lo) * B, records with leaf_hi > 0 included.
C20_ChildReadAtBlockOffset ==
    walk.kind # "none" /\ walkPkg.kind # "none"
        => \A it \in IndexRecords(tree) :
              ChildOffset(it, tree.B) = ChildBlockOffset(it, tree.B)

\* Both walkers returned no extent for a tree whose leaf node, holding the
\* leaves, lies at block 2^32 + LeafBlock(1).
C20_HighChildMissed ==
    /\ walk = [kind |-> "ok", extents |-> <<>>]
    /\ walkPkg = [kind |-> "ok", extents |-> <<>>]
    /\ Len(tree.leaves) > 0
    /\ \E it \in IndexRecords(tree) : it.LeafHigh > 0


\* The byte the record of inode n starts at on an image: the inode table of
\* its group, and its place in it.
InodeByteOffset(img, n) ==
    LET sb == DecodeSuperblock(img.sb)
        ipg == WSmall(sb.InodePerGroup)
        group == (n - 1) \div ipg
        index == (n - 1) % ipg
    IN  img.itable[group + 1] * GetBlockSize(sb) + index * sb.InodeSize

\* C19: for every inode number n with 1 <= n <= inode_count and an inode
\* size of 128 or 256, the inode locator succeeds and returns the record
\* decoded from the bytes at inode_table(group) * B + index * inode_size,
\* group = (n - 1) / inodes_per_group, index = (n - 1) % inodes_per_group,
\* whatever the offset of the inode inside its sector.
C19_LocatorReadsInodeAtItsOffset ==
    (/\ lookup # None
     /\ 1 <= lookup.n
     /\ lookup.n <= WSmall(DecodeSuperblock(inodeIn.sb).InodeCount))
        => /\ lookup.res.kind = "inode"
           /\ lookup.res.at = InodeByteOffset(inodeIn, lookup.n)

\* An inode of 128 bytes in the last quarter of its sector is not decoded:
\* the 128 bytes left of the sector are fewer than the record decoded.
C19_LastQuarterNotDecoded ==
    /\ lookup # None
    /\ lookup.n = 4
    /\ ifs.sb.InodeSize = 128
    /\ InodeByteOffset(inodeIn, 4) % SectorSize = 384
    /\ lookup.res = Err("failed to read binary")


\* The inode an image of the facade stores for a path ("/" is <<>>), 0 where
\* it stores none; and the file-type bits of its mode.
PathInode(path) ==
    IF path = <<>> THEN rootInodeNumber
    ELSE IF path = <<NameA>> THEN 20
    ELSE IF path = <<NameB>> THEN 21
    ELSE IF path = <<NameC>> THEN SubDir
    ELSE IF path = <<NameC, NameD>> THEN 22
    ELSE IF path = <<NameE>> THEN 23
    ELSE 0

PathType(in) == BitAnd(inodeAt(in.img, PathInode(in.path)).Mode, 61440)

\* C11: directory records whose inode field is 0 are skipped: enumeration
\* never yields them, and the inode locator is never called with inode
\* number 0 on their behalf.
C11_ZeroInodeRecordsSkipped ==
    /\ 0 \notin ctx.asked
    /\ dirRes.last.kind = "ok"
         => \A i \in 1 .. Len(dirRes.last.entries) : dirRes.last.entries[i].ino # 0

\* The record of a deleted "g" is yielded by ReadDir of the root, and
\* getInode was called with 0 for it.
C11_GapRecordYielded ==
    /\ fsIn.path = <<>>
    /\ dirRes.last.kind = "ok"
    /\ \E i \in 1 .. Len(dirRes.last.entries) :
         dirRes.last.entries[i].ino = 0 /\ dirRes.last.entries[i].name = NameG
    /\ 0 \in ctx.asked

\* C12: Open on a path whose last segment is a symlink inode (file type
\* 0xA000) fails with ErrOpenSymlink and returns no File; Open on a regular
\* file (0x8000) does not fail with that error.
C12_SymlinkOpenFails ==
    openRes.calls > 0
        => /\ PathType(fsIn) = 40960 => openRes.last = ErrOpenSymlink
           /\ PathType(fsIn) = 32768 => openRes.last # ErrOpenSymlink

\* Open of the symlink "b" was refused.
C12_SymlinkRefused ==
    /\ fsIn.path = <<NameB>>
    /\ PathType(fsIn) = 40960
    /\ openRes.last = ErrOpenSymlink

\* C13: Open on a path that is a directory inode fails with a typed error
\* of its own, distinct from the error returned when the last segment does
\* not exist.
C13_DirectoryOpenIsTypedError ==
    (openRes.calls > 0 /\ PathType(fsIn) = 16384)
        => openRes.last.kind = "err" /\ openRes.last # ErrNotExist

\* Open of the directory "c" returned the error of a missing file.
C13_DirectoryOpenNotFound ==
    /\ fsIn.path = <<NameC>>
    /\ PathType(fsIn) = 16384
    /\ openRes.last = ErrNotExist

\* The names of a listing, the record of inode 0 left out.
StoredNames(entries) ==
    LET live == SelectSeq(entries, LAMBDA fi : fi.ino # 0)
    IN  [i \in 1 .. Len(live) |-> live[i].name]

\* C14: after any sequence of Open, Read, Stat and ReadDir calls on the same
\* filesystem value, Stat of a path returns what its first call returned and
\* ReadDir of a path returns the same entries in the same order, that of the
\* records on disk: the position earlier calls left the reader at does not
\* show.
C14_RepeatedResultsEqualFirst ==
    /\ dirRes.calls > 0 => dirRes.last = dirRes.first
    /\ statRes.calls > 0 => statRes.last = statRes.first
    /\ (dirRes.calls > 0 /\ fsIn.path = <<>>)
         => /\ dirRes.last.kind = "ok"
            /\ StoredNames(dirRes.last.entries) = <<NameA, NameB, NameC, NameE>>

\* ReadDir and Stat were both repeated after a File.Read moved the reader.
C14_RepeatedAfterRead ==
    /\ dirRes.calls = 2
    /\ statRes.calls = 2
    /\ dirRes.last.kind = "ok"
    /\ dirRes.last.entries # <<>>
    /\ statRes.last.kind = "info"
    /\ handle.kind = "tfile"
    /\ handle.h.calls > 0
    /\ handle.h.out # <<>>

\* Inode.UsesExtents()
UsesExtents(inode) == BitAnd(inode.Flags, EXTENTS_FL) # 0

\* The blocks a list of extents covers, in order.
RECURSIVE BlocksOf(_)
BlocksOf(es) ==
    IF es = <<>> THEN <<>>
    ELSE [k \in 1 .. es[1].Len |-> WSmall(offset(es[1])) + k - 1] \o BlocksOf(Tail(es))

\* C16: for an inode whose EXTENTS flag is clear, enumeration and Open take
\* the data blocks from the block-pointer table of the 60-byte region
\* (GetBlockAddresses), not from the region decoded as an extent header.
C16_LegacyInodeReadThroughBlockTable ==
    /\ (dirRes.last.kind = "ok" /\ ~UsesExtents(inodeAt(fsIn.img, dirRes.last.ino)))
         => BlocksOf(dirRes.last.used)
               = GetBlockAddresses(fsIn.img, inodeAt(fsIn.img, dirRes.last.ino)).addrs
    /\ (openRes.last.kind = "file" /\ ~UsesExtents(openRes.last.info.inode))
         => BlocksOf(openRes.last.extents)
               = GetBlockAddresses(fsIn.img, openRes.last.info.inode).addrs

\* The directory "c", stored with block pointers, was listed as empty: its
\* block 5 was not read.
C16_LegacyDirectoryListedEmpty ==
    /\ fsIn.path = <<NameC>>
    /\ ~UsesExtents(inodeAt(fsIn.img, SubDir))
    /\ GetBlockAddresses(fsIn.img, inodeAt(fsIn.img, SubDir)).addrs = <<5>>
    /\ dirRes.last.kind = "ok"
    /\ dirRes.last.ino = SubDir
    /\ dirRes.last.used = <<>>
    /\ dirRes.last.entries = <<>>


\* C15: when two operations run together on one filesystem value,
\* interleaved at the single Seek and read calls on the shared reader, each
\* returns what it returns when it runs alone.
C15_ConcurrentResultsAsAlone ==
    \A p \in Procs :
        procs[p].pc = "done" => procs[p].res = AloneResult(concIn.img, concIn.ops[p])

\* The listing of the root, run together with the listing of "c", holds the
\* record of "d", a file of "c": its read came after the other's Seek.
C15_ListingReadOtherDirectory ==
    /\ concIn.ops = <<[kind |-> "list", ino |-> rootInodeNumber],
                      [kind |-> "list", ino |-> SubDir]>>
    /\ procs[1].pc = "done"
    /\ procs[1].res.kind = "ok"
    /\ \E i \in 1 .. Len(procs[1].res.entries) : procs[1].res.entries[i].Name = NameD
    /\ procs[1].res # AloneResult(concIn.img, concIn.ops[1])

\* ------------------------------------------------------------------------
\* Record stride of the directory iterator.
\* ------------------------------------------------------------------------

\* The offsets at which the records of the blocks blks of one extent are
\* stored, each paired with its record.
RECURSIVE StoredAt(_, _)
StoredAt(rs, o) ==
    IF rs = <<>> THEN <<>>
    ELSE <<[at |-> o, rec |-> rs[1]] >> \o StoredAt(Tail(rs), o + rs[1].span)

StoredRecords(n) == StoredAt(RecordsOf(n), 0)

\* The bytes of the directory n, its extents one after the other.
DirBytes(n) == Flatten(dirIn.inodes[n].extents)

\* C21: after decoding a directory record that starts at offset o of a data
\* block, the iterator stands at o + rec_len, having skipped exactly
\* rec_len - 8 - name_len bytes of padding, for every name_len in 0..255 and
\* every rec_len >= 8 + name_len.
C21_NextRecordAtRecLen ==
    (listing.kind # "none" /\ dirIn.sound)
        => \A i \in 1 .. Len(StoredRecords(rootInodeNumber)) :
              LET s == StoredRecords(rootInodeNumber)[i]
                  u == Unpack(DirBytes(rootInodeNumber), s.at)
              IN  /\ u.err = "nil"
                  /\ u.entry.RecLen >= 8 + u.entry.NameLen
                  /\ readAlign(DirBytes(rootInodeNumber), u) = s.at + u.entry.RecLen

\* listEntries ran on a sound directory that holds a record with a name of
\* 248 bytes or more: after that record the iterator stood 256 bytes past
\* the next record, and the files stored behind it are not among the
\* entries returned.
C21_LongNameOverskips ==
    /\ listing.kind = "ok"
    /\ dirIn.sound
    /\ \E i \in 1 .. Len(StoredRecords(rootInodeNumber)) :
          LET s == StoredRecords(rootInodeNumber)[i]
              u == Unpack(DirBytes(rootInodeNumber), s.at)
          IN  /\ s.rec.NameLen >= 248
              /\ s.rec.RecLen >= 8 + s.rec.NameLen
              /\ readAlign(DirBytes(rootInodeNumber), u) = s.at + s.rec.RecLen + 256
    /\ \A i \in 1 .. Len(listing.entries) : listing.entries[i].Name # NameOf(1)
    /\ \E i \in 1 .. Len(RecordsOf(rootInodeNumber)) :
          RecordsOf(rootInodeNumber)[i].Name = NameOf(1)

\* ------------------------------------------------------------------------
\* Termination of the extent walk.
\* ------------------------------------------------------------------------

\* The error the walk is to refuse a corrupt tree with.
CorruptExtentTree == Err("CorruptExtentTree")

\* C22: the extent walk terminates on every image, returning a list or an
\* error: a node whose header depth exceeds the safe bound (5) is refused
\* with CorruptExtentTree, and an index node that points to itself or to an
\* ancestor does not make the recursion run without bound.
C22_WalkTerminates ==
    /\ walk.kind # "none"
         => /\ walk.kind \in {"ok", "err"}
            /\ tree.root.Depth > 5 => walk = CorruptExtentTree
    /\ walkPkg.kind # "none"
         => /\ walkPkg.kind \in {"ok", "err"}
            /\ tree.root.Depth > 5 => walkPkg = CorruptExtentTree

\* The walk ran on a tree whose index node points to itself and ended
\* with the stack exhausted.
C22_CycleOverflowsStack ==
    /\ \E o \in DOMAIN tree.disk.nodes :
          /\ tree.disk.nodes[o].Depth > 0
          /\ ChildOffset(ItemAt(tree.disk.nodes[o], 1), tree.B) = o
    /\ walk = Fatal("stack overflow")
    /\ walkPkg = Fatal("stack overflow")

\* ------------------------------------------------------------------------
\* Overlapping extents.
\* ------------------------------------------------------------------------

\* Two extents of the list cover a common logical block.
Overlapping(es) ==
    \E i, j \in 1 .. Len(es) :
        /\ i # j
        /\ es[i].Len > 0 /\ es[j].Len > 0
        /\ es[i].Block < es[j].Block + es[j].Len
        /\ es[j].Block < es[i].Block + es[i].Len

\* C23: when two leaf extents of one inode cover overlapping logical block
\* ranges, the extent walker does not crash and ends with CorruptExtentTree
\* instead of returning the overlapping list.
C23_OverlapIsCorruptTree ==
    /\ (walk.kind # "none" /\ Overlapping(tree.leaves)) => walk = CorruptExtentTree
    /\ (walkPkg.kind # "none" /\ Overlapping(tree.leaves)) => walkPkg = CorruptExtentTree

\* The walker returned, with no error, a list in which two extents cover
\* the same logical block.
C23_OverlappingListReturned ==
    /\ Overlapping(tree.leaves)
    /\ walk.kind = "ok"
    /\ Overlapping(walk.extents)
    /\ Len(walk.extents) = Len(tree.leaves)

\* ------------------------------------------------------------------------
\* Legacy block resolution (src/ext4/inode.go).
\*
\* An image of this family is [len, words]: its length in bytes and, for
\* the blocks that hold block pointers, their 32-bit words. An input names
\* the image, the inode and the addresses the layout stores on each level.
\* ------------------------------------------------------------------------

\* Blocks of the images drawn.
LegacyBlocks == 64

\* The block the j-th block of pointers is put in, and the k-th address of
\* a data block.
PtrBlock(j) == 40 + j
DataAddr(k) == 100 + k

\* A block of pointers: the words ws, then, where the block is not full, a
\* zero, the words junk and zeros to the end of the block.
WordsOf(ws, junk) ==
    [i \in 1 .. BlockSize \div 4 |->
        IF i <= Len(ws) THEN ws[i]
        ELSE IF i = Len(ws) + 1 THEN 0
        ELSE IF i - Len(ws) - 1 <= Len(junk) THEN junk[i - Len(ws) - 1]
        ELSE 0]

\* nd direct pointers, with hole a further pointer behind the first zero;
\* single is "none", "short" (two addresses, a zero, one more address),
\* "full" (no zero in the block) or "beyond" (the pointer names a block
\* behind the end of the image); double and triple are "none" or "some".
LegacyInput(nd, hole, single, double, triple) ==
    LET full == [i \in 1 .. BlockSize \div 4 |-> 1000 + i]
    IN  [kind |-> "legacy",
         readable |-> single # "beyond",
         direct |-> [i \in 1 .. nd |-> DataAddr(i)],
         single |-> CASE single = "short" -> <<DataAddr(21), DataAddr(22)>>
                      [] single = "full" -> full
                      [] OTHER -> <<>>,
         double |-> IF double = "some"
                    THEN <<DataAddr(31), DataAddr(41), DataAddr(42)>> ELSE <<>>,
         triple |-> IF triple = "some" THEN <<DataAddr(51)>> ELSE <<>>,
         inode |->
           [Mode |-> 33188, Flags |-> 0, Size |-> 0,
            region |->
              [i \in 1 .. 15 |->
                 IF i <= nd THEN DataAddr(i)
                 ELSE IF i <= 12 THEN (IF hole /\ i = nd + 2 THEN DataAddr(99) ELSE 0)
                 ELSE IF i = 13
                 THEN CASE single = "none" -> 0
                        [] single = "beyond" -> LegacyBlocks
                        [] OTHER -> PtrBlock(1)
                 ELSE IF i = 14 THEN (IF double = "some" THEN PtrBlock(2) ELSE 0)
                 ELSE (IF triple = "some" THEN PtrBlock(5) ELSE 0)]],
         img |->
           [len |-> LegacyBlocks * BlockSize,
            words |->
              [b \in {PtrBlock(j) : j \in 1 .. 8} |->
                 CASE b = PtrBlock(1) ->
                        IF single = "full" THEN full
                        ELSE WordsOf(<<DataAddr(21), DataAddr(22)>>, <<DataAddr(98)>>)
                   [] b = PtrBlock(2) ->
                        WordsOf(<<PtrBlock(3), PtrBlock(4)>>, <<PtrBlock(1)>>)
                   [] b = PtrBlock(3) -> WordsOf(<<DataAddr(31)>>, <<>>)
                   [] b = PtrBlock(4) ->
                        WordsOf(<<DataAddr(41), DataAddr(42)>>, <<DataAddr(97)>>)
                   [] b = PtrBlock(5) -> WordsOf(<<PtrBlock(6)>>, <<PtrBlock(2)>>)
                   [] b = PtrBlock(6) -> WordsOf(<<PtrBlock(7), PtrBlock(8)>>, <<>>)
                   [] b = PtrBlock(7) -> WordsOf(<<DataAddr(51)>>, <<>>)
                   [] OTHER -> WordsOf(<<>>, <<>>)]]]

LegacyInputs ==
    {LegacyInput(nd, hole, single, double, triple) :
        nd \in {0, 3, 12}, hole \in BOOLEAN,
        single \in {"none", "short", "full", "beyond"},
        double \in {"none", "some"}, triple \in {"none", "some"}}

InitLegacy ==
    /\ legacyIn \in LegacyInputs
    /\ addresses = None
    /\ IdleConstruct
    /\ IdleExtents
    /\ IdleRead
    /\ IdleDir
    /\ IdleInode
    /\ IdleFs
    /\ IdleConc
    /\ IdleMode

BlockAddresses ==
    /\ addresses.kind = "none"
    /\ addresses' = GetBlockAddresses(legacyIn.img, legacyIn.inode)
    /\ UNCHANGED <<legacyIn, exceptLegacy>>

NextLegacy == BlockAddresses

SpecLegacy == InitLegacy /\ [][NextLegacy]_vars

\* C24: GetBlockAddresses returns, in this order, the direct pointers up to
\* but excluding the first zero, then the addresses of the single-indirect
\* block up to its first zero, then those reached through the
\* double-indirect block, then those reached through the triple-indirect
\* block; a level whose pointer is zero adds nothing and the scan of every
\* indirect block stops at its first zero entry.
C24_LegacyResolutionOrder ==
    (addresses.kind # "none" /\ legacyIn.readable)
        => addresses = [kind |-> "ok",
                        addrs |-> legacyIn.direct \o legacyIn.single
                                    \o legacyIn.double \o legacyIn.triple]

\* GetBlockAddresses ran on an inode with a pointer behind the first zero
\* of its direct pointers and with addresses on all three indirect levels,
\* the indirect blocks holding words behind their first zero.
C24_AllLevelsResolved ==
    /\ addresses.kind = "ok"
    /\ \E i \in 1 .. 11 : legacyIn.inode.region[i] = 0 /\ legacyIn.inode.region[i + 1] # 0
    /\ Len(legacyIn.direct) > 0
    /\ Len(legacyIn.single) = 2
    /\ Len(legacyIn.double) > 0
    /\ Len(legacyIn.triple) > 0
    /\ Len(addresses.addrs) = Len(legacyIn.direct) + 6

\* ------------------------------------------------------------------------
\* Inode kinds (src/ext4/inode.go).
\* ------------------------------------------------------------------------

\* Every value of the 16-bit mode field.
ModeInputs == {[kind |-> "mode", inode |-> [Mode |-> m]] : m \in 0 .. Base - 1}

InitMode ==
    /\ modeIn \in ModeInputs
    /\ kinds = None
    /\ IdleConstruct
    /\ IdleExtents
    /\ IdleRead
    /\ IdleDir
    /\ IdleInode
    /\ IdleFs
    /\ IdleConc
    /\ IdleLegacy

\* The four predicates called on the inode, and FileInfo.IsDir on a
\* FileInfo that holds it.
Classify ==
    /\ kinds.kind = "none"
    /\ kinds' = [kind |-> "kinds",
                 dir |-> IsDir(modeIn.inode),
                 regular |-> IsRegular(modeIn.inode),
                 socket |-> IsSocket(modeIn.inode),
                 symlink |-> IsSymlink(modeIn.inode),
                 infoDir |-> IsDir(modeIn.inode)]
    /\ UNCHANGED <<modeIn, exceptMode>>

NextMode == Classify

SpecMode == InitMode /\ [][NextMode]_vars

\* The file-type nibble of a mode: mode & 0xF000.
TypeNibble(m) == (m \div 4096) * 4096

\* C25: for every 16-bit mode value each kind predicate holds exactly when
\* the file-type nibble (mode & 0xF000) equals its value (IsDir 0x4000,
\* IsRegular 0x8000, IsSymlink 0xA000, IsSocket 0xC000), so that at most one
\* of the four is true of any inode.
C25_KindIsTypeNibble ==
    kinds.kind # "none"
        => LET t == TypeNibble(modeIn.inode.Mode)
           IN  /\ kinds.dir <=> t = 16384
               /\ kinds.infoDir <=> t = 16384
               /\ kinds.regular <=> t = 32768
               /\ kinds.symlink <=> t = 40960
               /\ kinds.socket <=> t = 49152
               /\ Cardinality({k \in {"dir", "regular", "symlink", "socket"} :
                                 kinds[k]}) <= 1

\* The predicates were asked about the mode 0100644 of a regular file:
\* IsRegular, IsSocket and IsSymlink all answered true.
C25_RegularFileIsAlsoSocketAndSymlink ==
    /\ kinds.kind = "kinds"
    /\ modeIn.inode.Mode = 33188
    /\ TypeNibble(modeIn.inode.Mode) = 32768
    /\ kinds.regular
    /\ kinds.socket
    /\ kinds.symlink

\* ------------------------------------------------------------------------
\* Inode cache.
\* ------------------------------------------------------------------------

\* C26: after any sequence of inode lookups a cache that is present maps
\* inode number n only to the record decoded from the image for n (an entry
\* is added only after a successful decode, and a lookup the cache served
\* returns the record a fresh decode returns); with the default no-op cache
\* every Get misses, so every lookup reads the image again.
C26_CacheHoldsDecodedRecords ==
    /\ icache.kind = "store"
         => \A k \in DOMAIN icache.held :
               \E n \in InodeNumbers :
                  /\ k = <<"ext4:", n>>
                  /\ icache.held[k].kind = "inode"
                  /\ icache.held[k] = getInodePkg(ifs, inodeIn, n)
    /\ (lookup # None /\ lookup.hit)
         => /\ icache.kind = "store"
            /\ lookup.res.kind = "inode"
            /\ lookup.res = getInodePkg(ifs, inodeIn, lookup.n)
    /\ (lookup # None /\ icache.kind = "mock") => ~lookup.hit

\* A lookup of an inode was served from a store that holds the records of
\* two inodes, which differ.
C26_LookupServedFromCache ==
    /\ icache.kind = "store"
    /\ lookup # None
    /\ lookup.hit
    /\ Cardinality(DOMAIN icache.held) = 2
    /\ \E j, k \in DOMAIN icache.held : icache.held[j] # icache.held[k]

\* ------------------------------------------------------------------------
\* Place of the descriptor table; division by zero at construction.
\* ------------------------------------------------------------------------

\* The descriptors of a filesystem value are decoded from bytes at or after
\* byte 2048, the end of the superblock.
BehindSuperblock(fs) ==
    \A i \in 1 .. Len(fs.gds) : fs.gds[i].at >= GroupZeroPadding + SuperBlockSize

\* C27: for every valid block size (1024, 2048, 4096, 65536) the bytes
\* decoded as the group descriptor table at construction lie in the image
\* region that follows the superblock, at or after byte 2048, and never
\* overlap the superblock's own bytes [1024, 2048).
C27_DescriptorTableBehindSuperblock ==
    /\ fsExt4.kind = "fs" => BehindSuperblock(fsExt4)
    /\ fsPkg.kind = "fs" => BehindSuperblock(fsPkg)

\* NewFS of package pkg built a filesystem value on an image with blocks of
\* 1024 bytes: its first descriptor was decoded from byte 1024, the first
\* byte of the superblock.
C27_SuperblockDecodedAsDescriptor ==
    /\ fsPkg.kind = "fs"
    /\ GetBlockSize(fsPkg.sb) = 1024
    /\ Len(fsPkg.gds) > 0
    /\ fsPkg.gds[1].at = GroupZeroPadding
    /\ fsPkg.gds[1].at < GroupZeroPadding + SuperBlockSize

\* C28: on every image of at least 2048 bytes NewFS ends by returning a
\* filesystem value or an error; it never aborts with a division by zero,
\* also when blocks_per_group or inodes_per_group of the superblock it works
\* with is 0.
C28_NewFSNeverDividesByZero ==
    ImageLen(image) >= GroupZeroPadding + SuperBlockSize
        => /\ fsExt4.kind \in {"none", "fs", "err"}
           /\ fsPkg.kind \in {"none", "fs", "err"}

\* NewFS of package ext4 ended in a division by zero on an image of 2048
\* bytes or more whose stored superblock has the magic and non-zero
\* per-group counts.
C28_ValidImageDividesByZero ==
    /\ fsExt4 = Panic("integer divide by zero")
    /\ DecodeSuperblock(image.sb).Magic = Ext4Magic
    /\ DecodeSuperblock(image.sb).BlockPerGroup # WZero
    /\ DecodeSuperblock(image.sb).InodePerGroup # WZero
    /\ ImageLen(image) >= GroupZeroPadding + SuperBlockSize

\* ------------------------------------------------------------------------
\* Inode numbers outside the image.
\* ------------------------------------------------------------------------

\* The group index the locator computes for inode number n.
GroupIndex(fs, n) == GoDiv(n - 1, WSmall(fs.sb.InodePerGroup))

\* C29: for every inode number handed to the inode locator, 0 and numbers
\* above inode_count included, either the group index
\* (n - 1) / inodes_per_group lies within the decoded descriptor list and the
\* byte offset computed is not negative, or the lookup returns an error; the
\* descriptor list is never indexed out of range.
C29_LocatorStaysInDescriptorList ==
    lookup # None
        => \/ lookup.res.kind = "err"
           \/ /\ lookup.res.kind = "inode"
              /\ GroupIndex(ifs, lookup.n) \in 0 .. Len(ifs.gds) - 1
              /\ lookup.res.at >= 0

\* getInode was called with a number above inode_count whose group index is
\* the length of the descriptor list, and ended in an index out of range.
C29_NumberBehindLastGroupPanics ==
    /\ lookup # None
    /\ lookup.n > WSmall(ifs.sb.InodeCount)
    /\ GroupIndex(ifs, lookup.n) = Len(ifs.gds)
    /\ lookup.res = Panic("index out of range")

\* ------------------------------------------------------------------------
\* End of stream.
\* ------------------------------------------------------------------------

\* The last call of Read returned 0 bytes and no error.
ReturnedNothing ==
    /\ file.kind \in {"file", "tfile"}
    /\ file.h.calls > 0
    /\ file.h.ret = [n |-> 0, err |-> "nil"]

\* The last call of Read returned the end-of-stream signal.
ReturnedEOF ==
    /\ file.kind \in {"file", "tfile"}
    /\ file.h.ret.err = "EOF"

\* C30: for any opened file and any fixed non-empty buffer length, calling
\* File.Read again and again eventually returns the end-of-stream signal;
\* there is no infinite run of calls that return 0 bytes with no error.
C30_ReadEventuallyEnds ==
    /\ (file.kind \in {"file", "tfile"}) ~> ReturnedEOF
    /\ []<>(~ReturnedNothing)

\* A File opened on a file with content has, after calls that returned
\* bytes, returned the end of the stream.
C30_EndOfStreamReached ==
    /\ file.kind = "file"
    /\ fin.size > BlockSize
    /\ fin.plen > SectorSize
    /\ file.h.sum > 0
    /\ file.h.ret = [n |-> 0, err |-> "EOF"]

====
